---- MODULE Spec2Model ----
(***************************************************************************)
(* A model of src/tic-tac.py: the FIFO tic-tac-toe rule engine             *)
(* (class GameLogic) and the application that drives it (class ModernApp): *)
(* offline play, play against the computer, and the two-peer LAN protocol. *)
(***************************************************************************)
EXTENDS Integers, Sequences, FiniteSets, TLC

VARIABLES
    game,      \* a GameLogic object driven directly (rule-engine specifications)
    result,    \* the value returned by the last direct call on `game`
    steps,     \* how many direct calls were made on `game`
    app,       \* the ModernApp object of each running program
    wire,      \* per program: the bytes sent to it that it has not yet received
    afterq,    \* per program: the root.after(0, ...) callbacks not yet run
    hist       \* history: counters for the bounds and what the properties observe

logicVars == <<game, result, steps>>
appVars == <<app, wire, afterq, hist>>
vars == <<game, result, steps, app, wire, afterq, hist>>

(***************************************************************************)
(* Module constants of the program (lines 9-11).                           *)
(***************************************************************************)
PLAYER_X == "X"
PLAYER_O == "O"
EMPTY == " "

Players == {PLAYER_X, PLAYER_O}
Marks == {PLAYER_X, PLAYER_O, EMPTY}

\* The board dimensions the size menu offers ("3x3", "4x4", "5x5").
Sizes == {3, 4, 5}
SmallestSize == CHOOSE n \in Sizes : \A m \in Sizes : n <= m

\* Python's None, as returned by make_move when nothing was evicted.
None == -1

(***************************************************************************)
(* Bounds of the model.                                                    *)
(***************************************************************************)
\* Direct make_move calls in one run of the rule-engine specification.
MaxCalls == 5
\* Cells beyond the first n that direct make_move calls may name.
MaxSpare == 2
\* Cells overwritten on top of a base board in the win-detection specification.
MaxEdits == 1
\* A run of the application follows one of eight profiles of what its users
\* do (hist.profile).  The counts are over all programs of the run together.
\*   "play":    up to MaxClicks accepted board clicks on the cells below
\*              MaxClicks, on a board small enough to be won by then; no Restart.
\*   "restart": up to MaxRestartClicks accepted clicks on the cells below
\*              MaxRestartClicks and up to MaxRestarts presses of Restart.
\*   "opening": up to MaxOpening accepted clicks on any cell; no Restart.
\*   "leave":   up to MaxLeaveClicks accepted clicks on the same cells as
\*              "play"; no Restart.  The Menu button is pressed.
\*   "offline": one program, against a friend or the computer: up to
\*              MaxOfflineClicks accepted clicks on the same cells as "play";
\*              Menu is pressed, and Restart (up to MaxRestarts) in the
\*              friend games; random.choice of the EASY computer draws
\*              among the first MaxPicks valid moves.
\*   "search":  one program against the MEDIUM computer with the steps of
\*              the ai_move thread interleaved: clicks and restarts as in
\*              the friend games of "offline", no Menu.
\*   "frame":   an online run with recv returning any part of the stream:
\*              clicks as in "opening" on the cells below MaxClicks.
\*   "over":    an online run as "play" with one more accepted click and
\*              one more cell, for the click after a line is complete.
\* In every profile the win dialog is answered either way.
MaxClicks == 5
MaxLeaveClicks == 2
MaxRestartClicks == 2
MaxRestarts == 1
MaxOpening == 1
MaxOfflineClicks == 2
MaxPicks == 2
\* Empty cells of a board handed directly to the search, on the smallest size.
MaxEmpty == 4
\* The deepest depth limit best_move_ai passes to minimax.
MaxDepth == 6
\* Moves of one match played directly on the rule engine.
MaxPlies == 10

(***************************************************************************)
(* class GameLogic                                                         *)
(***************************************************************************)
Cells(n) == 0 .. (n * n - 1)

\* GameLogic.__init__
GameLogic(n) ==
    [n |-> n,
     total_cells |-> n * n,
     board |-> [i \in Cells(n) |-> EMPTY],
     move_queues |-> [p \in Players |-> <<>>]]

\* A plausible slip in the anti-diagonal index: n-i instead of n-1-i.
check_winner_offdiag(g, player) ==
    LET n == g.n
        b == g.board
    IN  \/ \E r \in 0 .. n-1 : \A c \in 0 .. n-1 : b[r*n + c] = player
        \/ \E c \in 0 .. n-1 : \A r \in 0 .. n-1 : b[r*n + c] = player
        \/ \A i \in 0 .. n-1 : b[i*n + i] = player
        \/ \A i \in 0 .. n-1 : b[i*n + (n-i)] = player

\* GameLogic.check_winner: rows, columns, main diagonal, anti-diagonal.
check_winner(g, player) ==
    LET n == g.n
        b == g.board
    IN  \/ \E r \in 0 .. n-1 : \A c \in 0 .. n-1 : b[r*n + c] = player
        \/ \E c \in 0 .. n-1 : \A r \in 0 .. n-1 : b[r*n + c] = player
        \/ \A i \in 0 .. n-1 : b[i*n + i] = player
        \/ \A i \in 0 .. n-1 : b[i*n + (n-1-i)] = player

\* A plausible slip: the newest piece is evicted instead of the oldest
\* (pop() on the queue before the append instead of pop(0) after it).
make_move_newest(g, pos, player) ==
    LET q0 == g.move_queues[player]
        b1 == [g.board EXCEPT ![pos] = player]
    IN  IF Len(q0) + 1 > g.n
        THEN [game |-> [g EXCEPT !.board = [b1 EXCEPT ![q0[Len(q0)]] = EMPTY],
                                 !.move_queues[player] =
                                     Append(SubSeq(q0, 1, Len(q0) - 1), pos)],
              removed |-> q0[Len(q0)]]
        ELSE [game |-> [g EXCEPT !.board = b1,
                                 !.move_queues[player] = Append(q0, pos)],
              removed |-> None]

\* A plausible slip: the evicted cell is taken off the queue but left on the board.
make_move_keep(g, pos, player) ==
    LET b1 == [g.board EXCEPT ![pos] = player]
        q1 == Append(g.move_queues[player], pos)
    IN  IF Len(q1) > g.n
        THEN [game |-> [g EXCEPT !.board = b1, !.move_queues[player] = Tail(q1)],
              removed |-> Head(q1)]
        ELSE [game |-> [g EXCEPT !.board = b1, !.move_queues[player] = q1],
              removed |-> None]

\* GameLogic.make_move: the new object and the returned value.  The statements
\* run in the code's order, so an eviction of `pos` itself clears the cell again.
make_move(g, pos, player) ==
    LET b1 == [g.board EXCEPT ![pos] = player]
        q1 == Append(g.move_queues[player], pos)
    IN  IF Len(q1) > g.n
        THEN [game |-> [g EXCEPT !.board = [b1 EXCEPT ![Head(q1)] = EMPTY],
                                 !.move_queues[player] = Tail(q1)],
              removed |-> Head(q1)]
        ELSE [game |-> [g EXCEPT !.board = b1, !.move_queues[player] = q1],
              removed |-> None]

\* Some player has a complete line.
Decided(g) == check_winner(g, PLAYER_X) \/ check_winner(g, PLAYER_O)

\* The other mark (switch_turn, line 1028).
Opponent(player) == IF player = PLAYER_X THEN PLAYER_O ELSE PLAYER_X

\* GameLogic.get_valid_moves: the empty cells in ascending order.
RECURSIVE EmptyFrom(_, _)
EmptyFrom(g, i) ==
    IF i >= g.total_cells THEN <<>>
    ELSE IF g.board[i] = EMPTY THEN <<i>> \o EmptyFrom(g, i + 1)
    ELSE EmptyFrom(g, i + 1)

get_valid_moves(g) == EmptyFrom(g, 0)

\* `result` records the last direct call: its arguments and what it returned,
\* and as history each player's number of calls so far (calls) and, for the
\* mark now in each cell, its owner's call number that placed it (placed).
NoCall ==
    [op |-> "none", pos |-> None, player |-> EMPTY, removed |-> None,
     won |-> [p \in Players |-> FALSE],
     calls |-> [p \in Players |-> 0], placed |-> <<>>]

\* math.inf as used for best_val, alpha and beta: beyond every score.
Inf == 1000000

Max2(a, b) == IF a >= b THEN a ELSE b
Min2(a, b) == IF a <= b THEN a ELSE b
Abs(x) == IF x < 0 THEN -x ELSE x

\* A plausible slip: `score += 15` in both branches.
evaluate_board_plus(g) ==
    LET center == g.n \div 2
        center_idx == center * g.n + center
    IN  IF g.board[center_idx] = PLAYER_O THEN 15
        ELSE IF g.board[center_idx] = PLAYER_X THEN 15
        ELSE 0

\* GameLogic.evaluate_board: +15 / -15 for the centre cell.
evaluate_board(g) ==
    LET center == g.n \div 2
        center_idx == center * g.n + center
    IN  IF g.board[center_idx] = PLAYER_O THEN 15
        ELSE IF g.board[center_idx] = PLAYER_X THEN -15
        ELSE 0

\* A trial placement of the search: the board cell only, never the queues.
Place(g, move, mark) == [g EXCEPT !.board[move] = mark]

\* GameLogic.minimax.  MaxLoop and MinLoop are the two for-loops over
\* `moves`, from position k on, with the running max_eval / min_eval and
\* alpha / beta, and the `if beta <= alpha: break` cut.
RECURSIVE minimax(_, _, _, _, _, _)
RECURSIVE MaxLoop(_, _, _, _, _, _, _, _)
RECURSIVE MinLoop(_, _, _, _, _, _, _, _)

\* A plausible slip: `if beta <= alpha: break` stands before the update of
\* max_eval, so the value that causes the cut is not returned.
MaxLoop_cutfirst(g, moves, k, d, alpha, beta, max_d, max_eval) ==
    IF k > Len(moves) THEN max_eval
    ELSE LET eval == minimax(Place(g, moves[k], PLAYER_O), d + 1, FALSE,
                             alpha, beta, max_d)
             al == Max2(alpha, eval)
         IN  IF beta <= al THEN max_eval
             ELSE MaxLoop(g, moves, k + 1, d, al, beta, max_d,
                          Max2(max_eval, eval))

MaxLoop(g, moves, k, d, alpha, beta, max_d, max_eval) ==
    IF k > Len(moves) THEN max_eval
    ELSE LET eval == minimax(Place(g, moves[k], PLAYER_O), d + 1, FALSE,
                             alpha, beta, max_d)
             me == Max2(max_eval, eval)
             al == Max2(alpha, eval)
         IN  IF beta <= al THEN me
             ELSE MaxLoop(g, moves, k + 1, d, al, beta, max_d, me)

MinLoop(g, moves, k, d, alpha, beta, max_d, min_eval) ==
    IF k > Len(moves) THEN min_eval
    ELSE LET eval == minimax(Place(g, moves[k], PLAYER_X), d + 1, TRUE,
                             alpha, beta, max_d)
             me == Min2(min_eval, eval)
             be == Min2(beta, eval)
         IN  IF be <= alpha THEN me
             ELSE MinLoop(g, moves, k + 1, d, alpha, be, max_d, me)

\* A plausible slip: the depth is added to a win and taken from a loss.
minimax_signs(g, d, is_max, alpha, beta, max_d) ==
    IF check_winner(g, PLAYER_O) THEN 1000 + d
    ELSE IF check_winner(g, PLAYER_X) THEN -1000 - d
    ELSE IF d >= max_d \/ get_valid_moves(g) = <<>> THEN evaluate_board(g)
    ELSE IF is_max
         THEN MaxLoop(g, get_valid_moves(g), 1, d, alpha, beta, max_d, -Inf)
         ELSE MinLoop(g, get_valid_moves(g), 1, d, alpha, beta, max_d, Inf)

minimax(g, d, is_max, alpha, beta, max_d) ==
    IF check_winner(g, PLAYER_O) THEN 1000 - d
    ELSE IF check_winner(g, PLAYER_X) THEN -1000 + d
    ELSE IF d >= max_d \/ get_valid_moves(g) = <<>> THEN evaluate_board(g)
    ELSE IF is_max
         THEN MaxLoop(g, get_valid_moves(g), 1, d, alpha, beta, max_d, -Inf)
         ELSE MinLoop(g, get_valid_moves(g), 1, d, alpha, beta, max_d, Inf)

\* list.sort(key=lambda x: abs(x - center)): a stable sort, as an insertion sort.
RECURSIVE InsertByKey(_, _, _)
InsertByKey(sorted, x, center) ==
    IF sorted = <<>> THEN <<x>>
    ELSE IF Abs(Head(sorted) - center) <= Abs(x - center)
         THEN <<Head(sorted)>> \o InsertByKey(Tail(sorted), x, center)
         ELSE <<x>> \o sorted

RECURSIVE SortByCenter(_, _)
SortByCenter(moves, center) ==
    IF moves = <<>> THEN <<>>
    ELSE InsertByKey(SortByCenter(SubSeq(moves, 1, Len(moves) - 1), center),
                     moves[Len(moves)], center)

depth_limit(g, difficulty) ==
    IF difficulty = "MEDIUM" THEN 2
    ELSE IF g.n = 3 THEN 6 ELSE IF g.n = 4 THEN 4 ELSE 3

\* The root loop of best_move_ai: the first move whose value is strictly
\* greater than every value before it.
RECURSIVE RootLoop(_, _, _, _, _, _)
\* A plausible slip: `if val >= best_val`, which keeps the last of equal moves.
RootLoop_last(g, moves, k, max_d, best_val, best_move) ==
    IF k > Len(moves) THEN best_move
    ELSE LET val == minimax(Place(g, moves[k], PLAYER_O), 0, FALSE, -Inf, Inf, max_d)
         IN  IF val >= best_val
             THEN RootLoop(g, moves, k + 1, max_d, val, moves[k])
             ELSE RootLoop(g, moves, k + 1, max_d, best_val, best_move)

RootLoop(g, moves, k, max_d, best_val, best_move) ==
    IF k > Len(moves) THEN best_move
    ELSE LET val == minimax(Place(g, moves[k], PLAYER_O), 0, FALSE, -Inf, Inf, max_d)
         IN  IF val > best_val
             THEN RootLoop(g, moves, k + 1, max_d, val, moves[k])
             ELSE RootLoop(g, moves, k + 1, max_d, best_val, best_move)

\* A plausible slip: the random branch is taken unless the difficulty is HARD
\* (`if difficulty != 'HARD'` for `if difficulty == 'EASY'`).
best_move_ai_draws(g, difficulty, pick) ==
    LET valid_moves == get_valid_moves(g)
    IN  IF valid_moves = <<>> THEN None
        ELSE IF difficulty # "HARD" THEN valid_moves[pick]
        ELSE RootLoop(g, SortByCenter(valid_moves, g.total_cells \div 2), 1,
                      depth_limit(g, difficulty), -Inf, None)

\* GameLogic.best_move_ai.  `pick` is the position random.choice draws (EASY).
best_move_ai(g, difficulty, pick) ==
    LET valid_moves == get_valid_moves(g)
    IN  IF valid_moves = <<>> THEN None
        ELSE IF difficulty = "EASY" THEN valid_moves[pick]
        ELSE RootLoop(g, SortByCenter(valid_moves, g.total_cells \div 2), 1,
                      depth_limit(g, difficulty), -Inf, None)

\* The positions random.choice may draw in best_move_ai.
Picks(g, difficulty) ==
    IF difficulty = "EASY" /\ get_valid_moves(g) # <<>>
    THEN 1 .. Min2(Len(get_valid_moves(g)), MaxPicks)
    ELSE {1}

(***************************************************************************)
(* Text on the wire.  A string is a sequence of one-character strings.     *)
(***************************************************************************)
Digits == <<"0", "1", "2", "3", "4", "5", "6", "7", "8", "9">>

\* str(i) inside an f-string, i >= 0.
RECURSIVE IntToStr(_)
IntToStr(i) ==
    IF i < 10 THEN <<Digits[i + 1]>>
    ELSE IntToStr(i \div 10) \o <<Digits[(i % 10) + 1]>>

IsDigit(c) == \E d \in 1 .. 10 : Digits[d] = c
DigitVal(c) == (CHOOSE d \in 1 .. 10 : Digits[d] = c) - 1

\* int(s) for a string of decimal digits; None stands for ValueError.
RECURSIVE ParseDigits(_, _)
ParseDigits(str, acc) ==
    IF str = <<>> THEN acc
    ELSE IF ~IsDigit(Head(str)) THEN None
    ELSE ParseDigits(Tail(str), acc * 10 + DigitVal(Head(str)))

StrToInt(str) == IF str = <<>> THEN None ELSE ParseDigits(str, 0)

\* str.split(sep): the pieces between the separators (at least one piece).
RECURSIVE SplitFrom(_, _, _)
SplitFrom(str, sep, cur) ==
    IF str = <<>> THEN <<cur>>
    ELSE IF Head(str) = sep THEN <<cur>> \o SplitFrom(Tail(str), sep, <<>>)
    ELSE SplitFrom(Tail(str), sep, Append(cur, Head(str)))

Split(str, sep) == SplitFrom(str, sep, <<>>)

CmdNAME == <<"N", "A", "M", "E">>
CmdSIZE == <<"S", "I", "Z", "E">>
CmdMOVE == <<"M", "O", "V", "E">>
CmdWIN == <<"W", "I", "N">>
CmdRESTART == <<"R", "E", "S", "T", "A", "R", "T">>

\* The f-strings handed to socket.send, delimiter included.
MsgName(name) == CmdNAME \o <<",">> \o name \o <<";">>
MsgSize(size) == CmdSIZE \o <<",">> \o IntToStr(size) \o <<";">>
MsgMove(idx) == CmdMOVE \o <<",">> \o IntToStr(idx) \o <<";">>
MsgWin(mark) == CmdWIN \o <<",", mark, ";">>
MsgRestart == CmdRESTART \o <<";">>

(***************************************************************************)
(* class ModernApp.  An app is a record of the object's attributes.  A     *)
(* handler is an operator from the app (and its inputs) to the new app and *)
(* `out`, the bytes it handed to socket.send; `raised` tells that a send   *)
(* raised and the rest of the handler did not run.                         *)
(***************************************************************************)
\* self.game = None
NoGame ==
    [n |-> 0, total_cells |-> 0, board |-> <<>>,
     move_queues |-> [p \in Players |-> <<>>]]

DefaultName1 == <<"P", "l", "a", "y", "e", "r", " ", "1">>
DefaultName2 == <<"P", "l", "a", "y", "e", "r", " ", "2">>

\* ModernApp.__init__.  Attributes the constructor leaves unset (off_submode,
\* curr_player, game_running) are "unset" / FALSE until first assigned;
\* socket is TRUE for a connected socket object and FALSE for None;
\* ai_threads counts the ai_move threads that are still in time.sleep;
\* searching holds the ai_move threads that are inside best_move_ai;
\* listener tells that the network_listener thread is in its loop;
\* popups is the stack of open modal win dialogs.
NewApp ==
    [mode |-> "None", game |-> NoGame, socket |-> FALSE, is_host |-> FALSE,
     my_role |-> PLAYER_X, p1_name |-> DefaultName1, p2_name |-> DefaultName2,
     turn_lock |-> FALSE, n |-> 3, score_x |-> 0, score_o |-> 0,
     ai_difficulty |-> "HARD", name_submitted |-> FALSE,
     opponent_name_received |-> FALSE, off_submode |-> "unset",
     curr_player |-> "unset", game_running |-> FALSE,
     frame |-> "Welcome", wait |-> "", ai_threads |-> 0, searching |-> <<>>,
     listener |-> FALSE, popups |-> <<>>]

Ret(a) == [a |-> a, out |-> <<>>, raised |-> FALSE]
Raise(a, out) == [a |-> a, out |-> out, raised |-> TRUE]

OfflineAI(a) == a.mode = "OFFLINE" /\ a.off_submode = "AI"

\* socket.send returns normally: there is a socket object, and the transport
\* took the bytes (`ok`; it may refuse them once the other side has closed).
Sends(a, ok) == a.socket /\ ok

\* A root.after(0, ...) callback.
Cb(fn, idx, str) == [fn |-> fn, idx |-> idx, str |-> str]

\* self.game is bound to another object (or None): a thread that is inside
\* best_move_ai of the old object keeps that object to itself (w.g).
Rebind(a) ==
    [i \in DOMAIN a.searching |->
        IF a.searching[i].live
        THEN [a.searching[i] EXCEPT !.live = FALSE, !.g = a.game]
        ELSE a.searching[i]]

\* A plausible slip: the scores are cleared with every new match.
reset_match_scores(a, coin) ==
    LET cp == IF a.mode = "OFFLINE" THEN coin ELSE PLAYER_X
    IN  [a EXCEPT !.game = GameLogic(a.n),
                  !.searching = Rebind(a),
                  !.curr_player = cp,
                  !.game_running = TRUE,
                  !.turn_lock = (a.mode = "ONLINE" /\ ~a.is_host),
                  !.score_x = 0, !.score_o = 0,
                  !.ai_threads = IF OfflineAI(a) /\ cp = PLAYER_O THEN @ + 1 ELSE @]

\* ModernApp.reset_match.  `coin` is what random.choice draws (OFFLINE).
reset_match(a, coin) ==
    LET cp == IF a.mode = "OFFLINE" THEN coin ELSE PLAYER_X
    IN  [a EXCEPT !.game = GameLogic(a.n),
                  !.searching = Rebind(a),
                  !.curr_player = cp,
                  !.game_running = TRUE,
                  !.turn_lock = (a.mode = "ONLINE" /\ ~a.is_host),
                  !.ai_threads = IF OfflineAI(a) /\ cp = PLAYER_O THEN @ + 1 ELSE @]

\* ModernApp.start_game
start_game(a, coin) ==
    LET a0 == IF a.game = NoGame THEN [a EXCEPT !.score_x = 0, !.score_o = 0] ELSE a
    IN  [reset_match(a0, coin) EXCEPT !.frame = "Game"]

\* ModernApp.trigger_restart
trigger_restart(a, coin, ok) ==
    LET a1 == reset_match(a, coin)
    IN  IF a1.mode = "ONLINE"
        THEN IF Sends(a1, ok) THEN [a |-> a1, out |-> MsgRestart, raised |-> FALSE]
             ELSE Raise(a1, <<>>)
        ELSE Ret(a1)

\* ModernApp.quit_to_menu
quit_to_menu(a) ==
    [a EXCEPT !.socket = FALSE, !.game = NoGame, !.searching = Rebind(a),
              !.frame = "MainMenu"]

\* ModernApp.switch_turn
switch_turn(a) ==
    [a EXCEPT !.curr_player = IF a.curr_player = PLAYER_X THEN PLAYER_O ELSE PLAYER_X]

\* ModernApp.game_over_local up to show_win_popup, which opens a modal dialog
\* and runs a nested event loop until the user has chosen.
game_over_local_open(a, winner_char, src) ==
    [a EXCEPT !.game_running = FALSE,
              !.score_x = IF winner_char = PLAYER_X THEN @ + 1 ELSE @,
              !.score_o = IF winner_char = PLAYER_X THEN @ ELSE @ + 1,
              !.popups = Append(@, [kind |-> "win_local", src |-> src,
                                    mark |-> winner_char])]

Pop(a) == [a EXCEPT !.popups = SubSeq(@, 1, Len(@) - 1)]

\* ModernApp.game_over_local from the return of show_win_popup on.
game_over_local_close(a, play_again, coin, ok) ==
    IF play_again THEN trigger_restart(Pop(a), coin, ok)
    ELSE Ret(quit_to_menu(Pop(a)))

\* A plausible slip: the occupied-cell test is missing.
on_click_occupied(a, idx, ok) ==
    IF ~a.game_running THEN Ret(a)
    ELSE IF a.mode = "ONLINE" /\ a.turn_lock THEN Ret(a)
    ELSE IF OfflineAI(a) /\ a.curr_player = PLAYER_O THEN Ret(a)
    ELSE LET a1 == [a EXCEPT !.game = make_move(a.game, idx, a.curr_player).game]
             online == a1.mode = "ONLINE"
             a2 == IF online THEN [a1 EXCEPT !.turn_lock = TRUE] ELSE a1
             out == IF online THEN MsgMove(idx) ELSE <<>>
         IN  IF online /\ ~Sends(a1, ok) THEN Raise(a1, <<>>)
             ELSE IF check_winner(a2.game, a2.curr_player)
             THEN [a |-> game_over_local_open(a2, a2.curr_player, "on_click"),
                   out |-> out, raised |-> FALSE]
             ELSE LET a3 == switch_turn(a2)
                  IN  [a |-> IF OfflineAI(a3) /\ a3.curr_player = PLAYER_O
                             THEN [a3 EXCEPT !.ai_threads = @ + 1] ELSE a3,
                       out |-> out, raised |-> FALSE]

\* ModernApp.on_click up to its return or up to the win dialog.
on_click(a, idx, ok) ==
    IF ~a.game_running THEN Ret(a)
    ELSE IF a.mode = "ONLINE" /\ a.turn_lock THEN Ret(a)
    ELSE IF OfflineAI(a) /\ a.curr_player = PLAYER_O THEN Ret(a)
    ELSE IF a.game.board[idx] # EMPTY THEN Ret(a)
    ELSE LET a1 == [a EXCEPT !.game = make_move(a.game, idx, a.curr_player).game]
             online == a1.mode = "ONLINE"
             a2 == IF online THEN [a1 EXCEPT !.turn_lock = TRUE] ELSE a1
             out == IF online THEN MsgMove(idx) ELSE <<>>
         IN  IF online /\ ~Sends(a1, ok) THEN Raise(a1, <<>>)
             ELSE IF check_winner(a2.game, a2.curr_player)
             THEN [a |-> game_over_local_open(a2, a2.curr_player, "on_click"),
                   out |-> out, raised |-> FALSE]
             ELSE LET a3 == switch_turn(a2)
                  IN  [a |-> IF OfflineAI(a3) /\ a3.curr_player = PLAYER_O
                             THEN [a3 EXCEPT !.ai_threads = @ + 1] ELSE a3,
                       out |-> out, raised |-> FALSE]

\* ModernApp.on_click from the return of game_over_local on (lines 1012-1014):
\* the WIN message carries self.curr_player as it is by then.
on_click_resume(a, play_again, coin, ok) ==
    LET r == game_over_local_close(a, play_again, coin, ok)
    IN  IF r.raised THEN r
        ELSE IF r.a.mode = "ONLINE"
        THEN IF Sends(r.a, ok)
             THEN [r EXCEPT !.out = @ \o MsgWin(r.a.curr_player)]
             ELSE Raise(r.a, r.out)
        ELSE r

\* A plausible slip: the remote move is placed with the local player's mark.
apply_remote_move_own(a, idx) ==
    IF a.game = NoGame \/ idx \notin Cells(a.game.n) THEN a
    ELSE [switch_turn([a EXCEPT !.game = make_move(a.game, idx, a.my_role).game])
             EXCEPT !.turn_lock = FALSE]

\* ModernApp.apply_remote_move.  Without a game (None) or with an index off
\* the board the first statement raises and nothing changes.
apply_remote_move(a, idx) ==
    IF a.game = NoGame \/ idx \notin Cells(a.game.n) THEN a
    ELSE LET opp == IF a.my_role = PLAYER_X THEN PLAYER_O ELSE PLAYER_X
         IN  [switch_turn([a EXCEPT !.game = make_move(a.game, idx, opp).game])
                 EXCEPT !.turn_lock = FALSE]

\* ModernApp.game_over_remote; winner_char is the text after "WIN,".
game_over_remote(a, winner_char) ==
    [a EXCEPT !.game_running = FALSE,
              !.score_x = IF winner_char = <<PLAYER_X>> THEN @ + 1 ELSE @,
              !.score_o = IF winner_char = <<PLAYER_X>> THEN @ ELSE @ + 1,
              !.popups = Append(@, [kind |-> "win_remote", src |-> "remote",
                                    mark |-> EMPTY])]

\* ModernApp.finalize_ai up to its return or up to the win dialog.
finalize_ai(a, move) ==
    IF a.game = NoGame THEN a
    ELSE LET a1 == [a EXCEPT !.game = make_move(a.game, move, PLAYER_O).game]
         IN  IF check_winner(a1.game, PLAYER_O)
             THEN game_over_local_open(a1, PLAYER_O, "finalize_ai")
             ELSE switch_turn(a1)

\* ModernApp.start_offline_flow
start_offline_flow(a) == [a EXCEPT !.mode = "OFFLINE", !.frame = "Off_Size"]

\* ModernApp.select_size_offline
select_size_offline(a, size) == [a EXCEPT !.n = size, !.frame = "Off_Mode"]

\* ModernApp.goto_difficulty_select
goto_difficulty_select(a) == [a EXCEPT !.off_submode = "AI", !.frame = "Off_Diff"]

\* ModernApp.prep_names
prep_names(a, submode) ==
    [a EXCEPT !.off_submode = submode, !.name_submitted = FALSE,
              !.opponent_name_received = FALSE, !.frame = "NameEntry"]

show_wait_screen(a, msg) == [a EXCEPT !.frame = "Online_Wait", !.wait = msg]

\* setup_off_size, show_frame("Off_Size"), override_size_buttons_for_online
show_size_select(a) == [a EXCEPT !.frame = "Off_Size"]

AiName(difficulty) ==
    <<"A", "I", " ", "(">>
        \o (CASE difficulty = "EASY" -> <<"E", "A", "S", "Y">>
              [] difficulty = "MEDIUM" -> <<"M", "E", "D", "I", "U", "M">>
              [] OTHER -> <<"H", "A", "R", "D">>)
        \o <<")">>

\* A plausible slip: an online joiner starts the game on entering its name,
\* as the offline flow does, without waiting for the host's SIZE.
submit_names_start(a, n1, n2, coin, ok) ==
    LET a1 == [a EXCEPT !.p1_name = n1, !.name_submitted = TRUE]
    IN  IF a1.mode = "ONLINE" /\ a1.is_host
        THEN IF ~Sends(a1, ok) THEN Raise(a1, <<>>)
             ELSE [a |-> IF a1.opponent_name_received THEN show_size_select(a1)
                         ELSE show_wait_screen(a1, "opponent"),
                   out |-> MsgName(n1), raised |-> FALSE]
        ELSE [a |-> start_game(a1, coin),
              out |-> IF Sends(a1, ok) THEN MsgName(n1) ELSE <<>>, raised |-> FALSE]

\* ModernApp.set_difficulty
set_difficulty(a, diff) == prep_names([a EXCEPT !.ai_difficulty = diff], "AI")

\* ModernApp.submit_names
submit_names(a, n1, n2, coin, ok) ==
    LET a1 == [a EXCEPT !.p1_name = n1, !.name_submitted = TRUE]
    IN  IF a1.mode = "OFFLINE"
        THEN Ret(start_game([a1 EXCEPT !.p2_name =
                                 IF a1.off_submode = "AI" THEN AiName(a1.ai_difficulty)
                                 ELSE n2], coin))
        ELSE IF ~Sends(a1, ok) THEN Raise(a1, <<>>)
        ELSE [a |-> IF a1.is_host
                    THEN IF a1.opponent_name_received THEN show_size_select(a1)
                         ELSE show_wait_screen(a1, "opponent")
                    ELSE IF a1.opponent_name_received THEN show_wait_screen(a1, "size")
                         ELSE show_wait_screen(a1, "opponent"),
              out |-> MsgName(n1), raised |-> FALSE]

\* ModernApp.send_size_config
send_size_config(a, size, coin, ok) ==
    LET a1 == [a EXCEPT !.n = size]
    IN  IF ~Sends(a1, ok) THEN Raise(a1, <<>>)
        ELSE [a |-> start_game(a1, coin), out |-> MsgSize(size), raised |-> FALSE]

\* ModernApp.handle_network_msg, run by the receive thread: the attributes it
\* writes itself and the callbacks it queues for the foreground.
handle_network_msg(a, msg) ==
    LET parts == Split(msg, ",")
        cmd == parts[1]
    IN  IF cmd = CmdNAME
        THEN [a |-> [a EXCEPT !.p2_name = parts[2],
                              !.opponent_name_received = TRUE],
              cbs |-> IF a.name_submitted
                      THEN IF a.is_host THEN <<Cb("show_size_select", None, <<>>)>>
                           ELSE <<Cb("show_wait_size", None, <<>>)>>
                      ELSE <<>>]
        ELSE IF cmd = CmdSIZE
        THEN [a |-> [a EXCEPT !.n = StrToInt(parts[2])],
              cbs |-> <<Cb("start_game", None, <<>>)>>]
        ELSE IF cmd = CmdMOVE
        THEN [a |-> a, cbs |-> <<Cb("apply_remote_move", StrToInt(parts[2]), <<>>)>>]
        ELSE IF cmd = CmdWIN
        THEN [a |-> a, cbs |-> <<Cb("game_over_remote", None, parts[2])>>]
        ELSE IF cmd = CmdRESTART
        THEN [a |-> a, cbs |-> <<Cb("reset_match", None, <<>>)>>]
        ELSE [a |-> a, cbs |-> <<>>]

\* handle_network_msg(msg) raises: parts[1] of a message without a comma
\* (IndexError) or int() of a text that is no number (ValueError).
Raises(msg) ==
    LET parts == Split(msg, ",")
    IN  \/ parts[1] \in {CmdNAME, CmdSIZE, CmdMOVE, CmdWIN} /\ Len(parts) < 2
        \/ /\ parts[1] \in {CmdSIZE, CmdMOVE} /\ Len(parts) >= 2
           /\ StrToInt(parts[2]) = None

\* The for-loop of network_listener over data.split(';'): every non-empty
\* piece is handed to handle_network_msg (handed); an exception ends the
\* thread (alive).
RECURSIVE ListenLoop(_, _, _, _)
ListenLoop(a, pieces, cbs, handed) ==
    IF pieces = <<>> THEN [a |-> a, cbs |-> cbs, handed |-> handed, alive |-> TRUE]
    ELSE IF Head(pieces) = <<>> THEN ListenLoop(a, Tail(pieces), cbs, handed)
    ELSE IF Raises(Head(pieces))
    THEN [a |-> a, cbs |-> cbs, handed |-> Append(handed, Head(pieces)),
          alive |-> FALSE]
    ELSE LET r == handle_network_msg(a, Head(pieces))
         IN  ListenLoop(r.a, Tail(pieces), cbs \o r.cbs,
                        Append(handed, Head(pieces)))

\* One pass of the while-loop of network_listener on the bytes `data` that
\* recv returned.
network_listener(a, data) ==
    LET r == ListenLoop(a, Split(data, ";"), <<>>, <<>>)
    IN  [r EXCEPT !.a.listener = r.alive]

\* The body of a queued callback, run by the foreground event loop.
RunCallback(a, cb, coin) ==
    CASE cb.fn = "prep_names" -> prep_names(a, "ONLINE")
      [] cb.fn = "show_size_select" -> show_size_select(a)
      [] cb.fn = "show_wait_size" -> show_wait_screen(a, "size")
      [] cb.fn = "start_game" -> start_game(a, coin)
      [] cb.fn = "apply_remote_move" -> apply_remote_move(a, cb.idx)
      [] cb.fn = "game_over_remote" -> game_over_remote(a, cb.str)
      [] cb.fn = "reset_match" -> reset_match(a, coin)
      [] cb.fn = "finalize_ai" -> finalize_ai(a, cb.idx)
      [] OTHER -> a

\* ModernApp.ai_move after its sleep: the callback it queues, if any.
ai_move(a, pick) ==
    IF a.game = NoGame THEN <<>>
    ELSE LET move == best_move_ai(a.game, a.ai_difficulty, pick)
         IN  IF move # None THEN <<Cb("finalize_ai", move, <<>>)>> ELSE <<>>

\* ai_move step by step.  A thread inside best_move_ai is a record: whether
\* the GameLogic object it runs on is still self.game (live) or its own by
\* now (g), the sorted valid_moves, the position k of the root loop, whether
\* the trial mark of moves[k] is on the board (placed), best_val, best_move
\* and the depth limit.
Searcher(g, difficulty) ==
    [live |-> TRUE, g |-> NoGame,
     moves |-> SortByCenter(get_valid_moves(g), g.total_cells \div 2),
     k |-> 1, placed |-> FALSE, best_val |-> -Inf, best_move |-> None,
     max_d |-> depth_limit(g, difficulty)]

\* The GameLogic object thread w runs on, as it is now.
Target(a, w) == IF w.live THEN a.game ELSE w.g

\* A write of thread number i to the board of its object.
WriteBoard(a, i, board) ==
    IF a.searching[i].live THEN [a EXCEPT !.game.board = board]
    ELSE [a EXCEPT !.searching[i].g.board = board]

\* ai_move wakes from time.sleep and enters self.game.best_move_ai (lines
\* 1063, 70-85): without a game the thread dies; EASY or no valid move
\* returns at once.
ai_move_enter(a, pick) ==
    IF a.game = NoGame \/ get_valid_moves(a.game) = <<>>
    THEN [a |-> a, cbs |-> <<>>]
    ELSE IF a.ai_difficulty = "EASY"
    THEN [a |-> a, cbs |-> <<Cb("finalize_ai", get_valid_moves(a.game)[pick], <<>>)>>]
    ELSE [a |-> [a EXCEPT !.searching =
                     Append(@, Searcher(a.game, a.ai_difficulty))],
          cbs |-> <<>>]

\* Line 88 of the root loop: self.board[move] = PLAYER_O.
ai_move_place(a, i) ==
    LET w == a.searching[i]
    IN  [WriteBoard(a, i, [Target(a, w).board EXCEPT ![w.moves[w.k]] = PLAYER_O])
            EXCEPT !.searching[i].placed = TRUE]

\* Lines 89-93 of the root loop: the minimax call on the board as it is,
\* self.board[move] = EMPTY, and the update of best_val / best_move.
ai_move_restore(a, i) ==
    LET w == a.searching[i]
        val == minimax(Target(a, w), 0, FALSE, -Inf, Inf, w.max_d)
        a1 == WriteBoard(a, i, [Target(a, w).board EXCEPT ![w.moves[w.k]] = EMPTY])
    IN  [a1 EXCEPT !.searching[i].placed = FALSE,
                   !.searching[i].k = @ + 1,
                   !.searching[i].best_val = IF val > @ THEN val ELSE @,
                   !.searching[i].best_move =
                       IF val > w.best_val THEN w.moves[w.k] ELSE @]

\* Lines 94 and 1064: best_move_ai returns and ai_move queues finalize_ai.
ai_move_return(a, i) ==
    LET w == a.searching[i]
    IN  [a |-> [a EXCEPT !.searching =
                    SubSeq(@, 1, i - 1) \o SubSeq(@, i + 1, Len(@))],
         cbs |-> IF w.best_move # None
                 THEN <<Cb("finalize_ai", w.best_move, <<>>)>> ELSE <<>>]

(***************************************************************************)
(* The running programs.  Online, p1 hosts and p2 joins; offline, p1 plays *)
(* and p2 is never started.                                                *)
(***************************************************************************)
Apps == {"p1", "p2"}
Other(p) == IF p = "p1" THEN "p2" ELSE "p1"

\* What the user may type as a display name.
Names == {<<"B", "o">>}

Profiles == {"play", "restart", "opening", "leave"}

Coins(a) == IF a.mode = "OFFLINE" THEN Players ELSE {PLAYER_X}

\* Whether the transport takes the bytes of a send: always while the other
\* side's socket is open; once it has closed, a send may still return
\* normally (the bytes are lost) or raise.
SendOutcomes(p) ==
    IF app[p].mode = "ONLINE" /\ ~app[Other(p)].socket THEN {TRUE, FALSE} ELSE {TRUE}

Transmit(p, out) ==
    IF app[Other(p)].socket THEN [wire EXCEPT ![Other(p)] = @ \o out] ELSE wire

\* hist: the profile of the run and its counters; whether rejected clicks are
\* noted (track) and why the last step, if a click, was rejected (rej); the
\* number in the SIZE message the joiner's receive thread handled (0: none
\* yet); the size the host chose (0: none yet); the cell of the last accepted
\* click; what became of the WIN message of the last winning online click;
\* per program the last two callbacks its event loop ran since its user
\* last acted (ran); per program the bytes of a message that earlier recv
\* calls returned without its delimiter (cut); and for the last recv the
\* pieces it handed to handle_network_msg (handed) and the messages whose
\* delimiter it returned (whole).
NoHist ==
    [profile |-> "play", moves |-> 0, restarts |-> 0, track |-> FALSE,
     rej |-> "none", gotSize |-> 0, chosen |-> 0, clicked |-> None,
     win |-> "none", ran |-> [p \in {"p1", "p2"} |-> <<>>],
     cut |-> [p \in {"p1", "p2"} |-> <<>>], handed |-> <<>>, whole |-> <<>>,
     rematch |-> FALSE]

\* Every step but a rejected click clears the note of the last rejection.
Seen == [hist EXCEPT !.rej = "none"]

\* A step in which the user of p acted.  hist.rematch notes that the last
\* act of any user was to answer PLAY AGAIN in the dialog of a win made by
\* the user's own click in an online match with both sides connected.
Acted(p) == [Seen EXCEPT !.ran[p] = <<>>, !.rematch = FALSE]

LastTwo(seq) == IF Len(seq) > 2 THEN SubSeq(seq, Len(seq) - 1, Len(seq)) ELSE seq

\* The bytes of the first message in a stream, delimiter excluded.
RECURSIVE FirstMsg(_)
FirstMsg(stream) ==
    IF stream = <<>> \/ Head(stream) = ";" THEN <<>>
    ELSE <<Head(stream)>> \o FirstMsg(Tail(stream))

\* After the connection is made (host_game / join_game, server_thread /
\* client_thread): both sockets are open, both receive threads listen, and
\* each side has queued prep_names('ONLINE').
Connected ==
    /\ app = [p \in Apps |->
                 [NewApp EXCEPT !.mode = "ONLINE", !.socket = TRUE,
                                !.listener = TRUE,
                                !.is_host = (p = "p1"),
                                !.my_role = IF p = "p1" THEN PLAYER_X ELSE PLAYER_O,
                                !.frame = "Online_Wait", !.wait = "connect"]]
    /\ wire = [p \in Apps |-> <<>>]
    /\ afterq = [p \in Apps |-> <<Cb("prep_names", None, <<>>)>>]
    /\ game = NoGame /\ result = NoCall /\ steps = 0

InitOnline ==
    /\ Connected
    /\ \E pr \in Profiles : hist = [NoHist EXCEPT !.profile = pr]

\* The foreground event loop of p runs the oldest queued callback.  It does
\* so inside a win dialog's nested event loop as well.
RunAfter(p) ==
    /\ afterq[p] # <<>>
    /\ \E coin \in Coins(app[p]) :
           app' = [app EXCEPT ![p] = RunCallback(app[p], Head(afterq[p]), coin)]
    /\ afterq' = [afterq EXCEPT ![p] = Tail(@)]
    /\ hist' = [Seen EXCEPT !.ran[p] =
                    LastTwo(Append(@, [fn |-> Head(afterq[p]).fn,
                                       idx |-> Head(afterq[p]).idx]))]
    /\ UNCHANGED <<wire, logicVars>>

\* network_listener of p receives one message and handles it.
Deliver(p) ==
    /\ app[p].socket /\ app[p].listener
    /\ wire[p] # <<>>
    /\ LET msg == FirstMsg(wire[p])
           r == handle_network_msg(app[p], msg)
       IN  /\ app' = [app EXCEPT ![p] = IF msg # <<>> THEN r.a ELSE @]
           /\ afterq' = [afterq EXCEPT ![p] = IF msg # <<>> THEN @ \o r.cbs ELSE @]
           /\ wire' = [wire EXCEPT ![p] = SubSeq(@, Len(msg) + 2, Len(@))]
           /\ hist' = [Seen EXCEPT !.gotSize =
                           IF ~app[p].is_host /\ Split(msg, ",")[1] = CmdSIZE
                           THEN r.a.n ELSE @]
    /\ UNCHANGED logicVars

\* recv of p's network_listener returns end-of-stream (the other side has
\* closed and everything it sent was read): the loop breaks, the thread ends.
Hangup(p) ==
    /\ app[p].socket /\ app[p].listener
    /\ ~app[Other(p)].socket
    /\ wire[p] = <<>>
    /\ app' = [app EXCEPT ![p].listener = FALSE]
    /\ hist' = Seen
    /\ UNCHANGED <<wire, afterq, logicVars>>

\* The buttons of the board as setup_game_board made them, within the bounds.
ClickCells(a) ==
    {i \in Cells(a.game.n) :
        CASE hist.profile = "opening" -> TRUE
          [] hist.profile = "restart" -> i < MaxRestartClicks
          [] hist.profile = "over" -> i < MaxClicks + 1
          [] OTHER -> i < MaxClicks}

ClickBudget ==
    CASE hist.profile = "play" -> MaxClicks
      [] hist.profile = "restart" -> MaxRestartClicks
      [] hist.profile = "leave" -> MaxLeaveClicks
      [] hist.profile \in {"offline", "search"} -> MaxOfflineClicks
      [] hist.profile = "over" -> MaxClicks + 1
      [] OTHER -> MaxOpening

\* Restart presses: in the "restart" runs and in the offline friend games.
RestartBudget(a) ==
    IF \/ hist.profile \in {"restart", "search"}
       \/ hist.profile = "offline" /\ a.off_submode = "PvP"
    THEN MaxRestarts ELSE 0

\* The size buttons the host may press: in a "play" run, the boards on which
\* a line can be completed within the click budget.
SizeChoices ==
    IF hist.profile \in {"play", "over"}
    THEN {n \in Sizes : 2 * n - 1 <= MaxClicks} ELSE Sizes

\* Why on_click must reject a click, in the order of the specification text.
RejectReason(a, idx) ==
    IF ~a.game_running THEN "over"
    ELSE IF a.mode = "ONLINE" /\ a.turn_lock THEN "locked"
    ELSE IF a.mode = "OFFLINE" /\ a.off_submode = "AI" /\ a.curr_player = PLAYER_O
    THEN "computer"
    ELSE IF a.game.board[idx] # EMPTY THEN "occupied"
    ELSE "none"

\* The user of p clicks board cell idx.  A click that on_click rejects is a
\* step of its own only in the runs that note rejections (hist.track).
Click(p, idx) ==
    /\ app[p].frame = "Game" /\ app[p].popups = <<>> /\ app[p].game # NoGame
    /\ idx \in ClickCells(app[p])
    /\ LET rej == RejectReason(app[p], idx)
       IN  /\ rej = "none" => hist.moves < ClickBudget
           /\ rej # "none" => hist.track
           /\ \E ok \in SendOutcomes(p) :
                  LET r == on_click(app[p], idx, ok)
                  IN  /\ app' = [app EXCEPT ![p] = r.a]
                      /\ wire' = Transmit(p, r.out)
                      /\ hist' = [hist EXCEPT
                             !.rej = IF hist.track THEN rej ELSE "none",
                             !.moves = IF rej = "none" THEN @ + 1 ELSE @,
                             !.clicked = IF rej = "none" THEN idx ELSE @,
                             !.ran[p] = IF rej = "none" THEN <<>> ELSE @,
                             !.win = IF r.a.popups # <<>> /\ r.a.mode = "ONLINE"
                                     THEN "pending" ELSE @]
    /\ UNCHANGED <<afterq, logicVars>>

\* Which WIN message, if any, a resumed on_click transmitted for `mark`
\* (noted only while the other side is still connected).
WinSent(out, mark) ==
    LET msgs == Split(out, ";")
    IN  IF \E k \in 1 .. Len(msgs) : msgs[k] = CmdWIN \o <<",", mark>> THEN "sent"
        ELSE IF \E k \in 1 .. Len(msgs) : Split(msgs[k], ",")[1] = CmdWIN THEN "wrong"
        ELSE "unsent"

\* The user of p answers the topmost win dialog: PLAY AGAIN or MENU for the
\* mover's dialog, OK for the other side's.
PopupChoice(p, play_again) ==
    /\ app[p].popups # <<>>
    /\ LET top == app[p].popups[Len(app[p].popups)]
       IN  IF top.kind = "win_remote"
           THEN /\ ~play_again
                /\ app' = [app EXCEPT ![p] = Pop(@)]
                /\ hist' = Acted(p)
                /\ UNCHANGED wire
           ELSE \E coin \in Coins(app[p]), ok \in SendOutcomes(p) :
                    LET r == IF top.src = "on_click"
                             THEN on_click_resume(app[p], play_again, coin, ok)
                             ELSE game_over_local_close(app[p], play_again, coin, ok)
                    IN  /\ app' = [app EXCEPT ![p] = r.a]
                        /\ wire' = IF r.a.socket THEN Transmit(p, r.out)
                                   ELSE [wire EXCEPT ![p] = <<>>]
                        /\ hist' = [Acted(p) EXCEPT !.win =
                               IF top.src = "on_click" /\ app[p].mode = "ONLINE"
                               THEN IF app[Other(p)].socket
                                    THEN WinSent(r.out, top.mark) ELSE "none"
                               ELSE @,
                               !.rematch =
                                   /\ top.src = "on_click" /\ play_again
                                   /\ app[p].mode = "ONLINE"
                                   /\ app[Other(p)].socket /\ r.a.socket]
    /\ UNCHANGED <<afterq, logicVars>>

\* The user of p presses Restart and confirms (trigger_restart_confirm).
Restart(p) ==
    /\ app[p].frame = "Game" /\ app[p].popups = <<>>
    /\ hist.restarts < RestartBudget(app[p])
    /\ \E coin \in Coins(app[p]), ok \in SendOutcomes(p) :
           LET r == trigger_restart(app[p], coin, ok)
           IN  /\ app' = [app EXCEPT ![p] = r.a]
               /\ wire' = Transmit(p, r.out)
    /\ hist' = [Acted(p) EXCEPT !.restarts = @ + 1]
    /\ UNCHANGED <<afterq, logicVars>>

\* The user of p presses Menu on the game screen (quit_to_menu).  What was
\* sent to the closed socket is never read.
Menu(p) ==
    /\ app[p].frame = "Game" /\ app[p].popups = <<>>
    /\ hist.profile \in {"leave", "offline"}
    /\ app' = [app EXCEPT ![p] = quit_to_menu(@)]
    /\ wire' = [wire EXCEPT ![p] = <<>>]
    /\ hist' = Acted(p)
    /\ UNCHANGED <<afterq, logicVars>>

\* The user of p presses START GAME on the name screen.
SubmitNames(p, n1, n2) ==
    /\ app[p].frame = "NameEntry"
    /\ \E coin \in Coins(app[p]), ok \in SendOutcomes(p) :
           LET r == submit_names(app[p], n1, n2, coin, ok)
           IN  /\ app' = [app EXCEPT ![p] = r.a]
               /\ wire' = Transmit(p, r.out)
    /\ hist' = Acted(p)
    /\ UNCHANGED <<afterq, logicVars>>

\* The host presses one of the size buttons (send_size_config).
PickSize(p, size) ==
    /\ app[p].frame = "Off_Size" /\ app[p].mode = "ONLINE"
    /\ size \in SizeChoices
    /\ \E coin \in Coins(app[p]), ok \in SendOutcomes(p) :
           LET r == send_size_config(app[p], size, coin, ok)
           IN  /\ app' = [app EXCEPT ![p] = r.a]
               /\ wire' = Transmit(p, r.out)
    /\ hist' = [Acted(p) EXCEPT !.chosen = size]
    /\ UNCHANGED <<afterq, logicVars>>

NextOnline ==
    \E p \in Apps :
        \/ RunAfter(p)
        \/ Deliver(p)
        \/ Hangup(p)
        \/ \E idx \in 0 .. 24 : Click(p, idx)
        \/ \E b \in BOOLEAN : PopupChoice(p, b)
        \/ Restart(p)
        \/ Menu(p)
        \/ \E n1 \in Names : SubmitNames(p, n1, DefaultName2)
        \/ \E size \in Sizes : PickSize(p, size)

Spec == InitOnline /\ [][NextOnline]_vars

Host == "p1"
Joiner == "p2"

InMatch(p) == app[p].game # NoGame /\ app[p].game_running

\* C4: in an online match the host and the joiner never both have turn_lock
\* clear while game_running is true: at most one side may submit the next move.
C4_TurnExclusive ==
    ~(\A p \in Apps : app[p].mode = "ONLINE" /\ InMatch(p) /\ ~app[p].turn_lock)

Quiet == \A p \in Apps : wire[p] = <<>> /\ afterq[p] = <<>>

\* C5: whenever no message is in flight or queued in either direction and both
\* peers are in a running match, the two peers hold the same board and the
\* same move queues.
C5_ReplicaConsistency ==
    (Quiet /\ \A p \in Apps : app[p].mode = "ONLINE" /\ InMatch(p)) =>
        /\ app[Host].game.board = app[Joiner].game.board
        /\ app[Host].game.move_queues = app[Joiner].game.move_queues

\* Both users have pressed START GAME on the name screen, both NAME messages
\* were sent and handled, and no callback waits in either event loop.
NamesExchanged ==
    /\ Quiet
    /\ \A p \in Apps :
           /\ app[p].mode = "ONLINE"
           /\ app[p].socket /\ app[p].listener
           /\ app[p].name_submitted

\* C30: the name handshake loses no wake-up: once both peers have submitted
\* their names and both NAME messages are handled, with nothing left in
\* flight or queued, the host is at the board-size selection (or past it, in
\* the game) and the joiner waits for the size (or is in the game), whatever
\* the order of submit_names, the NAME handling of the receive threads and
\* the flag reset of prep_names was.
C30_NameHandshake ==
    NamesExchanged =>
        /\ app[Host].frame \in {"Off_Size", "Game"}
        /\ \/ app[Joiner].frame = "Game"
           \/ app[Joiner].frame = "Online_Wait" /\ app[Joiner].wait = "size"

\* The joiner's event loop has just run start_game (queued by SIZE) and then
\* apply_remote_move(i) (queued by MOVE,i), and its user has not acted since.
SizeThenMove(i) ==
    /\ app[Joiner].socket
    /\ hist.ran[Joiner] = << [fn |-> "start_game", idx |-> None],
                             [fn |-> "apply_remote_move", idx |-> i] >>

\* C6: when the joiner has processed SIZE,n and then MOVE,i from the host, its
\* replica has size n (the size the host chose), cell i holds X and every other
\* cell is empty, X's queue is <<i>>, O's is empty, and turn_lock is clear; i
\* is the cell the host clicked.
C6_SizeThenMove ==
    \A i \in 0 .. 24 :
        SizeThenMove(i) =>
            LET a == app[Joiner]
            IN  /\ a.n = hist.chosen /\ a.n = hist.gotSize /\ a.n \in Sizes
                /\ a.game.n = a.n
                /\ i \in Cells(a.n)
                /\ DOMAIN a.game.board = Cells(a.n)
                /\ \A c \in Cells(a.n) :
                       a.game.board[c] = IF c = i THEN PLAYER_X ELSE EMPTY
                /\ a.game.move_queues[PLAYER_X] = <<i>>
                /\ a.game.move_queues[PLAYER_O] = <<>>
                /\ ~a.turn_lock
                /\ hist.moves = 1 => i = hist.clicked

\* The scenario of the specification: SIZE,4 then MOVE,5; and a two-digit
\* index on the largest board.
C6_Witness ==
    \/ SizeThenMove(5) /\ app[Joiner].n = 4
    \/ SizeThenMove(24) /\ app[Joiner].n = 5

\* C7: only the host chooses the size: the joiner never shows the size
\* selection, has no game before its receive thread has handled SIZE, and
\* whenever both peers have a game both have the size the host chose.
C7_SizeHandshake ==
    /\ app[Joiner].frame # "Off_Size"
    /\ app[Joiner].game # NoGame => hist.gotSize # 0
    /\ hist.gotSize # 0 => hist.gotSize = hist.chosen
    /\ (\A p \in Apps : app[p].game # NoGame) =>
           \A p \in Apps : app[p].n = hist.chosen /\ app[p].game.n = hist.chosen

\* Both peers have a game of the largest size; the host has already moved on it.
C7_Witness ==
    /\ hist.chosen = 5
    /\ \A p \in Apps : app[p].game # NoGame /\ app[p].n = 5
    /\ app[Host].game.move_queues[PLAYER_X] # <<>>

\* C8: whenever a local move of an online match completed a line and the
\* mover has answered the result dialog (either way) while the peer is still
\* connected, the mover has transmitted WIN with the mark that completed the
\* line.
C8_WinBroadcast == hist.win \in {"none", "pending", "sent"}

\* The steps in which p resets the match: a press of Restart, PLAY AGAIN in
\* the win dialog, or the callback queued by a RESTART message.
RestartStep(p) ==
    \/ Restart(p)
    \/ /\ app[p].popups # <<>>
       /\ app[p].popups[Len(app[p].popups)].kind = "win_local"
       /\ PopupChoice(p, TRUE)
    \/ /\ afterq[p] # <<>>
       /\ Head(afterq[p]).fn = "reset_match"
       /\ RunAfter(p)

\* C9: a reset of the match by an online peer (local restart or RESTART
\* message) leaves a fresh empty board of the agreed size n with both queues
\* empty, X to move, the host unlocked and the joiner locked, and leaves n,
\* both display names and both scores unchanged.
C9_Step ==
    \A p \in Apps :
        (app[p].mode = "ONLINE" /\ RestartStep(p)) =>
            LET a == app[p]
                b == app'[p]
            IN  /\ b.game.n = a.n /\ b.game.total_cells = a.n * a.n
                /\ DOMAIN b.game.board = Cells(a.n)
                /\ \A c \in Cells(a.n) : b.game.board[c] = EMPTY
                /\ \A m \in Players : b.game.move_queues[m] = <<>>
                /\ b.curr_player = PLAYER_X
                /\ b.game_running
                /\ b.turn_lock = (p = Joiner)
                /\ b.n = a.n
                /\ b.p1_name = a.p1_name /\ b.p2_name = a.p2_name
                /\ b.score_x = a.score_x /\ b.score_o = a.score_o

C9_RestartFrame == [][C9_Step]_vars

\* A peer that has a score and an agreed size other than the default has
\* processed RESTART: its board is empty again and its names are the typed ones.
C9_Witness ==
    \E p \in Apps :
        /\ hist.ran[p] # <<>>
        /\ hist.ran[p][Len(hist.ran[p])].fn = "reset_match"
        /\ app[p].n = 4
        /\ app[p].p2_name \in Names /\ app[p].p1_name \in Names
        /\ hist.moves > 0

(***************************************************************************)
(* The rule engine driven directly: a fresh GameLogic(n) and any sequence  *)
(* of make_move calls on empty cells, X and O in any order.                *)
(***************************************************************************)
(* One program offline (against a friend or the computer) or two programs  *)
(* online, with every rejected click noted as a step.                      *)
(***************************************************************************)
\* The sizes and difficulties the offline user picks in these runs.
OfflineSizes == {SmallestSize}
Difficulties == {"EASY", "MEDIUM"}

\* p1 has pressed PLAY OFFLINE on the main menu; p2 was never started.
InitOffline ==
    /\ app = [p \in Apps |-> IF p = "p1" THEN start_offline_flow(NewApp) ELSE NewApp]
    /\ wire = [p \in Apps |-> <<>>]
    /\ afterq = [p \in Apps |-> <<>>]
    /\ hist = [NoHist EXCEPT !.profile = "offline", !.track = TRUE]
    /\ game = NoGame /\ result = NoCall /\ steps = 0

InitApp ==
    \/ InitOffline
    \/ Connected /\ hist = [NoHist EXCEPT !.profile = "play", !.track = TRUE]

\* The user presses a size button of the offline size selection.
SelectSizeOffline(p, size) ==
    /\ app[p].frame = "Off_Size" /\ app[p].mode = "OFFLINE"
    /\ size \in OfflineSizes
    /\ app' = [app EXCEPT ![p] = select_size_offline(@, size)]
    /\ hist' = Acted(p)
    /\ UNCHANGED <<wire, afterq, logicVars>>

\* The user presses VS FRIEND (Local).
ChooseFriend(p) ==
    /\ app[p].frame = "Off_Mode"
    /\ app' = [app EXCEPT ![p] = prep_names(@, "PvP")]
    /\ hist' = Acted(p)
    /\ UNCHANGED <<wire, afterq, logicVars>>

\* The user presses VS AI (Computer).
ChooseComputer(p) ==
    /\ app[p].frame = "Off_Mode"
    /\ app' = [app EXCEPT ![p] = goto_difficulty_select(@)]
    /\ hist' = Acted(p)
    /\ UNCHANGED <<wire, afterq, logicVars>>

\* The user presses a difficulty button.
SetDifficulty(p, diff) ==
    /\ app[p].frame = "Off_Diff"
    /\ app' = [app EXCEPT ![p] = set_difficulty(@, diff)]
    /\ hist' = Acted(p)
    /\ UNCHANGED <<wire, afterq, logicVars>>

\* An ai_move thread of p wakes from its sleep, searches the game as it is
\* now and queues finalize_ai.
AiWake(p) ==
    /\ app[p].ai_threads > 0
    /\ \E pick \in Picks(app[p].game, app[p].ai_difficulty) :
           afterq' = [afterq EXCEPT ![p] = @ \o ai_move(app[p], pick)]
    /\ app' = [app EXCEPT ![p].ai_threads = @ - 1]
    /\ hist' = Seen
    /\ UNCHANGED <<wire, logicVars>>

NextApp ==
    \/ NextOnline
    \/ \E p \in Apps :
        \/ \E size \in Sizes : SelectSizeOffline(p, size)
        \/ ChooseFriend(p)
        \/ ChooseComputer(p)
        \/ \E diff \in Difficulties : SetDifficulty(p, diff)
        \/ AiWake(p)

SpecApp == InitApp /\ [][NextApp]_vars

\* C10: a click that on_click must reject (match over, online and locked,
\* computer mode on the computer's turn, cell not empty) changes nothing:
\* board, both move queues, curr_player, turn_lock and scores stay as they
\* are, nothing is queued and no message is sent.
C10_Step ==
    hist'.rej # "none" =>
        /\ \A p \in Apps :
               /\ app'[p].game = app[p].game
               /\ app'[p].curr_player = app[p].curr_player
               /\ app'[p].turn_lock = app[p].turn_lock
               /\ app'[p].score_x = app[p].score_x
               /\ app'[p].score_o = app[p].score_o
               /\ app'[p] = app[p]
        /\ wire' = wire
        /\ afterq' = afterq

C10_RejectedClick == [][C10_Step]_vars

\* The user clicked again while the computer's thread was still asleep after
\* the user's own move, with empty cells on the board, and was rejected.
C10_Witness ==
    /\ hist.rej = "computer"
    /\ app["p1"].ai_threads > 0
    /\ app["p1"].game.move_queues[PLAYER_X] # <<>>
    /\ \E i \in Cells(app["p1"].n) :
           i < MaxClicks /\ app["p1"].game.board[i] = EMPTY

(***************************************************************************)
(* One program offline against the computer, with the search of the        *)
(* computer's thread taken one root move at a time, so that the foreground *)
(* runs between the thread's writes to the board.                          *)
(***************************************************************************)
\* The user has gone through PLAY OFFLINE, the smallest size, VS AI, MEDIUM
\* and START GAME.
InitSearch ==
    /\ \E coin \in Players, n1 \in Names :
           app = [p \in Apps |->
                     IF p = "p1"
                     THEN submit_names(
                              set_difficulty(
                                  goto_difficulty_select(
                                      select_size_offline(start_offline_flow(NewApp),
                                                          SmallestSize)),
                                  "MEDIUM"),
                              n1, DefaultName2, coin, TRUE).a
                     ELSE NewApp]
    /\ wire = [p \in Apps |-> <<>>]
    /\ afterq = [p \in Apps |-> <<>>]
    /\ hist = [NoHist EXCEPT !.profile = "search"]
    /\ game = NoGame /\ result = NoCall /\ steps = 0

\* The threads that are inside best_move_ai at one time.
MaxThreads == 1

\* A sleeping ai_move thread of p wakes and enters best_move_ai.
SearchEnter(p) ==
    /\ app[p].ai_threads > 0
    /\ Len(app[p].searching) < MaxThreads
    /\ \E pick \in Picks(app[p].game, app[p].ai_difficulty) :
           LET r == ai_move_enter([app[p] EXCEPT !.ai_threads = @ - 1], pick)
           IN  /\ app' = [app EXCEPT ![p] = r.a]
               /\ afterq' = [afterq EXCEPT ![p] = @ \o r.cbs]
    /\ hist' = Seen
    /\ UNCHANGED <<wire, logicVars>>

\* Thread i of p puts the trial mark of its next root move on the board.
SearchPlace(p, i) ==
    /\ i \in DOMAIN app[p].searching
    /\ ~app[p].searching[i].placed
    /\ app[p].searching[i].k <= Len(app[p].searching[i].moves)
    /\ app' = [app EXCEPT ![p] = ai_move_place(@, i)]
    /\ hist' = Seen
    /\ UNCHANGED <<wire, afterq, logicVars>>

\* Thread i of p evaluates the root move and takes the trial mark off.
SearchRestore(p, i) ==
    /\ i \in DOMAIN app[p].searching
    /\ app[p].searching[i].placed
    /\ app' = [app EXCEPT ![p] = ai_move_restore(@, i)]
    /\ hist' = Seen
    /\ UNCHANGED <<wire, afterq, logicVars>>

\* Thread i of p leaves best_move_ai and queues finalize_ai.
SearchReturn(p, i) ==
    /\ i \in DOMAIN app[p].searching
    /\ ~app[p].searching[i].placed
    /\ app[p].searching[i].k > Len(app[p].searching[i].moves)
    /\ LET r == ai_move_return(app[p], i)
       IN  /\ app' = [app EXCEPT ![p] = r.a]
           /\ afterq' = [afterq EXCEPT ![p] = @ \o r.cbs]
    /\ hist' = Seen
    /\ UNCHANGED <<wire, logicVars>>

NextSearch ==
    \E p \in Apps :
        \/ RunAfter(p)
        \/ \E idx \in 0 .. 24 : Click(p, idx)
        \/ \E b \in BOOLEAN : PopupChoice(p, b)
        \/ Restart(p)
        \/ SearchEnter(p)
        \/ \E i \in 1 .. MaxThreads : SearchPlace(p, i)
        \/ \E i \in 1 .. MaxThreads : SearchRestore(p, i)
        \/ \E i \in 1 .. MaxThreads : SearchReturn(p, i)

SpecSearch == InitSearch /\ [][NextSearch]_vars

\* The board of p's game and its two queues tell the same position.
Committed(a) ==
    \A i \in Cells(a.game.n) :
        /\ a.game.board[i] # EMPTY =>
               \E k \in DOMAIN a.game.move_queues[a.game.board[i]] :
                   a.game.move_queues[a.game.board[i]][k] = i
        /\ \A m \in Players :
               (\E k \in DOMAIN a.game.move_queues[m] : a.game.move_queues[m][k] = i)
                   => a.game.board[i] = m

\* C11: only the foreground writes the shared board: while a search is in
\* flight the board of self.game never differs from the committed position
\* (the pieces the two queues record), and no accepted move is erased by a
\* trial placement of the search.
C11_SingleMutator ==
    \A p \in Apps : app[p].game # NoGame => Committed(app[p])

\* A finalize_ai callback is about to run on a game of p.
FinalizeStep(p) ==
    /\ afterq[p] # <<>>
    /\ Head(afterq[p]).fn = "finalize_ai"
    /\ afterq'[p] = Tail(afterq[p])
    /\ app[p].game # NoGame

\* C12: a computer move is applied only when the running match waits for
\* one: finalize_ai never runs on a match in which it is not O's turn (a
\* result of a thread started for an earlier match, or the second of two
\* results for one turn).
C12_Step ==
    \A p \in Apps :
        FinalizeStep(p) => app[p].game_running /\ app[p].curr_player = PLAYER_O

C12_StaleDiscarded == [][C12_Step]_vars

\* No index occurs twice in a queue or in both queues of g.
NoRepeat(g) ==
    /\ \A m \in Players :
           \A j, k \in DOMAIN g.move_queues[m] :
               j # k => g.move_queues[m][j] # g.move_queues[m][k]
    /\ \A j \in DOMAIN g.move_queues[PLAYER_X] :
           \A k \in DOMAIN g.move_queues[PLAYER_O] :
               g.move_queues[PLAYER_X][j] # g.move_queues[PLAYER_O][k]

\* C13: in every reachable state of a match every index in a player's queue
\* holds that player's mark, every marked cell is in its owner's queue, and
\* no index occurs twice in a queue or in both queues.
C13_BoardQueueConsistent ==
    \A p \in Apps :
        app[p].game # NoGame => Committed(app[p]) /\ NoRepeat(app[p].game)

\* A move of mark m is applied to the board of p's match: make_move appends
\* to m's queue (line 59); a fresh match has empty queues.
MoveOf(p, m) ==
    /\ app[p].game # NoGame
    /\ app'[p].game # NoGame
    /\ app'[p].game.move_queues[m] # app[p].game.move_queues[m]
    /\ app'[p].game.move_queues[m] # <<>>

\* A computer move is on its way at p: an ai_move thread sleeps or searches,
\* or its finalize_ai waits in the event loop.
ComputerPending(p) ==
    \/ app[p].ai_threads > 0
    \/ app[p].searching # <<>>
    \/ \E k \in DOMAIN afterq[p] : afterq[p][k].fn = "finalize_ai"

\* C29: offline, the moves applied to a match's board alternate between X and
\* O from the match's first player on: each move is made by the side whose
\* turn it is, in a running match, and hands the turn over unless it wins; an
\* ai_move thread is started only when it is O's turn; and against the
\* computer it is never O's turn in a running match with no computer move
\* pending.
C29_Step ==
    \A p \in Apps :
        /\ \A m \in Players :
               MoveOf(p, m) =>
                   /\ app[p].game_running
                   /\ app[p].curr_player = m
                   /\ ~check_winner(app'[p].game, m) =>
                          app'[p].curr_player = Opponent(m)
        /\ app'[p].ai_threads > app[p].ai_threads =>
               app'[p].curr_player = PLAYER_O
        /\ (/\ app'[p].game # NoGame
            /\ OfflineAI(app'[p])
            /\ app'[p].game_running
            /\ app'[p].curr_player = PLAYER_O)
               => ComputerPending(p)'

C29_TurnAlternation == [][C29_Step]_vars

\* The event loop of p is about to run apply_remote_move(idx) on a game.
RemoteMoveStep(p, idx) ==
    /\ afterq[p] # <<>>
    /\ Head(afterq[p]) = Cb("apply_remote_move", idx, <<>>)
    /\ afterq'[p] = Tail(afterq[p])
    /\ app[p].game # NoGame

\* C14: a received MOVE that names an occupied cell of the local replica, or
\* that arrives while the local match is over, leaves the replica's board and
\* move queues unchanged.
C14_Step ==
    \A p \in Apps :
        \A idx \in Cells(app[p].game.n) :
            (RemoteMoveStep(p, idx)
                /\ (app[p].game.board[idx] # EMPTY \/ ~app[p].game_running))
            => app'[p].game = app[p].game

C14_IllegalRemoteMove == [][C14_Step]_vars

\* C15: once the connection has closed (the receive loop of p has seen
\* end-of-stream), no further local move is applied to p's board.
C15_Step ==
    \A p \in Apps :
        (app[p].mode = "ONLINE" /\ ~app[p].listener /\ app[p].game # NoGame)
        => ~(hist'.moves > hist.moves /\ app'[p].game # app[p].game)

C15_FailureTerminal == [][C15_Step]_vars

(***************************************************************************)
(* Two programs online with recv returning the stream in arbitrary pieces. *)
(***************************************************************************)
MaxChunk == 3

\* All but the last element of a sequence.
Front(seq) == SubSeq(seq, 1, Len(seq) - 1)

\* recv of p's network_listener returns the next k bytes of the stream.
Recv(p, k) ==
    /\ app[p].socket /\ app[p].listener
    /\ k \in 1 .. Len(wire[p])
    /\ k <= MaxChunk \/ k = Len(wire[p])
    /\ LET data == SubSeq(wire[p], 1, k)
           r == network_listener(app[p], data)
           sofar == Split(hist.cut[p] \o data, ";")
       IN  /\ app' = [app EXCEPT ![p] = r.a]
           /\ afterq' = [afterq EXCEPT ![p] = @ \o r.cbs]
           /\ wire' = [wire EXCEPT ![p] = SubSeq(@, k + 1, Len(@))]
           /\ hist' = [Seen EXCEPT !.cut[p] = sofar[Len(sofar)],
                                   !.handed = r.handed,
                                   !.whole = Front(sofar)]
    /\ UNCHANGED logicVars

InitFrame ==
    /\ Connected
    /\ hist = [NoHist EXCEPT !.profile = "frame"]

NextFrame ==
    \E p \in Apps :
        \/ RunAfter(p)
        \/ \E k \in 1 .. 64 : Recv(p, k)
        \/ \E idx \in 0 .. 24 : Click(p, idx)
        \/ \E n1 \in Names : SubmitNames(p, n1, DefaultName2)
        \/ \E size \in Sizes : PickSize(p, size)

SpecFrame == InitFrame /\ [][NextFrame]_vars

\* C16: whatever pieces recv returns, handle_network_msg is handed exactly
\* the messages the sender wrote, whole and in order: the pieces handed
\* after a recv are the messages whose delimiter that recv returned.
C16_Framing == hist.handed = hist.whole

\* p's user has made a click that on_click accepted.
AcceptedClick(p) ==
    /\ app[p].mode = "ONLINE"
    /\ hist'.moves = hist.moves + 1
    /\ app'[p] # app[p]

\* C17: every accepted local move of an online match is on the local board,
\* exactly one MOVE with the clicked index has been handed to the connection
\* and turn_lock is set when on_click is done; so a peer never has two more
\* pieces of its own in the queues than pieces applied for its opponent.
C17_Step ==
    \A p \in Apps :
        AcceptedClick(p) =>
            LET idx == hist'.clicked
                me == app[p].my_role
                opp == IF me = PLAYER_X THEN PLAYER_O ELSE PLAYER_X
            IN  /\ app'[p].game.board[idx] = me
                /\ app[Other(p)].socket =>
                       wire'[Other(p)] = wire[Other(p)] \o MsgMove(idx)
                /\ app'[p].turn_lock
                /\ Len(app'[p].game.move_queues[me])
                       <= Len(app'[p].game.move_queues[opp]) + 1

C17_SendThenLock == [][C17_Step]_vars

(***************************************************************************)
(* An online run that goes on after a line is complete.                    *)
(***************************************************************************)
InitOver ==
    /\ Connected
    /\ hist = [NoHist EXCEPT !.profile = "over"]

NextOver ==
    \E p \in Apps :
        \/ RunAfter(p)
        \/ Deliver(p)
        \/ Hangup(p)
        \/ \E idx \in 0 .. 24 : Click(p, idx)
        \/ \E b \in BOOLEAN : PopupChoice(p, b)
        \/ \E n1 \in Names : SubmitNames(p, n1, DefaultName2)
        \/ \E size \in Sizes : PickSize(p, size)

SpecOver == InitOver /\ [][NextOver]_vars

\* A step in which make_move has changed the game of p: the game is neither
\* created, replaced by a fresh one nor dropped.
MoveApplied(p) ==
    /\ app[p].game # NoGame
    /\ app'[p].game # NoGame
    /\ app'[p].game # app[p].game
    /\ app'[p].game # GameLogic(app'[p].game.n)

\* C27: whenever a move is applied on a replica (a local click, a remote MOVE
\* or a computer result), no player has a complete line on that replica's
\* board before the move and the replica's match is running.
C27_Step ==
    \A p \in Apps :
        MoveApplied(p) => ~Decided(app[p].game) /\ app[p].game_running

C27_NoMoveAfterDecided == [][C27_Step]_vars

\* A fresh running match with the host to move.
FreshMatch(p) ==
    /\ InMatch(p)
    /\ app[p].game = GameLogic(app[p].n)
    /\ app[p].curr_player = PLAYER_X
    /\ app[p].turn_lock = ~app[p].is_host

\* C26: after a peer has made the winning move and answered PLAY AGAIN, once
\* every message is delivered and processed (and no user has acted since),
\* both peers are in a running fresh match with empty boards and the host to
\* move.
C26_WinThenRematch ==
    (/\ hist.rematch
     /\ Quiet
     /\ \A p \in Apps : app[p].socket)
        => \A p \in Apps : FreshMatch(p)

(***************************************************************************)
LogicCells(n) == {i \in Cells(n) : i < n + MaxSpare}

\* No program runs while the rule engine is driven directly.
AppIdle ==
    /\ app = [p \in Apps |-> NewApp]
    /\ wire = [p \in Apps |-> <<>>]
    /\ afterq = [p \in Apps |-> <<>>]
    /\ hist = NoHist

InitLogic ==
    /\ AppIdle
    /\ \E n \in Sizes :
           /\ game = GameLogic(n)
           /\ result = [NoCall EXCEPT !.op = "init",
                                      !.placed = [i \in Cells(n) |-> 0]]
    /\ steps = 0

CallMakeMove(pos, player) ==
    /\ steps < MaxCalls
    /\ game.board[pos] = EMPTY
    /\ LET r == make_move(game, pos, player)
       IN  /\ game' = r.game
           /\ result' = [NoCall EXCEPT !.op = "make_move", !.pos = pos,
                                       !.player = player, !.removed = r.removed,
                                       !.calls = [result.calls EXCEPT
                                                      ![player] = @ + 1],
                                       !.placed = [i \in Cells(game.n) |->
                                           IF i = pos THEN result.calls[player] + 1
                                           ELSE IF i = r.removed THEN 0
                                           ELSE result.placed[i]]]
    /\ steps' = steps + 1
    /\ UNCHANGED appVars

NextLogic ==
    \E pos \in LogicCells(game.n), player \in Players : CallMakeMove(pos, player)

SpecLogic == InitLogic /\ [][NextLogic]_vars

Count(g, player) == Cardinality({i \in Cells(g.n) : g.board[i] = player})

\* C1: after any sequence of make_move calls on empty cells, each player's
\* queue holds at most n indices and the board shows exactly that many cells
\* of the player's mark.
C1_FifoCap ==
    \A p \in Players :
        /\ Len(game.move_queues[p]) <= game.n
        /\ Count(game, p) = Len(game.move_queues[p])

\* A player is at the cap after an eviction, while the opponent has pieces too.
C1_Witness ==
    /\ result.op = "make_move"
    /\ result.removed # None
    /\ Len(game.move_queues[result.player]) = game.n
    /\ \E p \in Players : p # result.player /\ Len(game.move_queues[p]) > 0

\* C2: a make_move by a player who owns n pieces evicts the head of the
\* player's queue, the earliest placed of the player's pieces (returned, cell emptied, queue = old tail plus the new cell);
\* with fewer than n pieces nothing is evicted and None is returned; in both
\* cases the opponent's cells and queue are untouched.
C2_Step ==
    LET p == result'.player
        pos == result'.pos
        q == game.move_queues[p]
        opp == CHOOSE o \in Players : o # p
        others == Cells(game.n) \ {pos}
    IN  steps' = steps + 1 =>
            /\ game'.board[pos] = p
            /\ game'.move_queues[opp] = game.move_queues[opp]
            /\ \A i \in Cells(game.n) : game.board[i] = opp <=> game'.board[i] = opp
            /\ IF Len(q) = game.n
               THEN /\ result'.removed = Head(q)
                    /\ \A i \in Cells(game.n) :
                           game.board[i] = p =>
                               result.placed[Head(q)] <= result.placed[i]
                    /\ game'.board[Head(q)] = EMPTY
                    /\ game'.move_queues[p] = Append(Tail(q), pos)
                    /\ \A i \in others \ {Head(q)} : game'.board[i] = game.board[i]
               ELSE /\ result'.removed = None
                    /\ game'.move_queues[p] = Append(q, pos)
                    /\ \A i \in others : game'.board[i] = game.board[i]

C2_EvictOldest == [][C2_Step]_vars

\* The scenario of the specification: 3x3, X at 0,1,2 and then at 3.
C2_Witness ==
    /\ game.n = 3
    /\ result.op = "make_move" /\ result.player = PLAYER_X /\ result.pos = 3
    /\ result.removed = 0
    /\ game.move_queues[PLAYER_X] = <<1, 2, 3>>
    /\ game.board[0] = EMPTY
    /\ Len(game.move_queues[PLAYER_O]) > 0

(***************************************************************************)
(* Win detection driven directly: check_winner on boards written cell by   *)
(* cell.  Every 3x3 board is covered; for the larger sizes, the empty      *)
(* board and each single-line board, with up to MaxEdits overwritten cells.*)
(***************************************************************************)
Row(i, n) == i \div n
Col(i, n) == i % n

\* The 2n+2 winning lines, by coordinates.
Lines(n) ==
    {{i \in Cells(n) : Row(i, n) = r} : r \in 0 .. n-1}
        \cup {{i \in Cells(n) : Col(i, n) = c} : c \in 0 .. n-1}
        \cup {{i \in Cells(n) : Row(i, n) = Col(i, n)}}
        \cup {{i \in Cells(n) : Row(i, n) + Col(i, n) = n - 1}}

HasLine(g, player) == \E L \in Lines(g.n) : \A i \in L : g.board[i] = player

LineBoard(n, L, p) == [i \in Cells(n) |-> IF i \in L THEN p ELSE EMPTY]


BaseBoards(n) ==
    IF n = SmallestSize
    THEN [Cells(n) -> Marks]
    ELSE {[i \in Cells(n) |-> EMPTY]}
             \cup {LineBoard(n, L, p) : L \in Lines(n), p \in Players}

InitWin ==
    /\ AppIdle
    /\ \E n \in Sizes : \E b \in BaseBoards(n) :
           game = [GameLogic(n) EXCEPT !.board = b]
    /\ result = [NoCall EXCEPT !.op = "init"]
    /\ steps = 0

\* The harness overwrites one cell of the board.
SetCell(i, m) ==
    /\ result.op = "init"
    /\ steps < MaxEdits
    /\ game' = [game EXCEPT !.board[i] = m]
    /\ steps' = steps + 1
    /\ UNCHANGED <<result, appVars>>

CallCheckWinner ==
    /\ result.op = "init"
    /\ result' = [NoCall EXCEPT !.op = "check_winner",
                                !.won = [p \in Players |-> check_winner(game, p)]]
    /\ UNCHANGED <<game, steps, appVars>>

\* The board with every X replaced by O and every O by X.
SwapMarks(g) ==
    [g EXCEPT !.board = [i \in Cells(g.n) |->
                            IF g.board[i] = PLAYER_X THEN PLAYER_O
                            ELSE IF g.board[i] = PLAYER_O THEN PLAYER_X
                            ELSE EMPTY]]

\* evaluate_board called on the board and on the board with the marks exchanged.
CallEvaluateBoard ==
    /\ result.op = "init"
    /\ result' = [op |-> "evaluate_board",
                  score |-> evaluate_board(game),
                  swapped |-> evaluate_board(SwapMarks(game))]
    /\ UNCHANGED <<game, steps, appVars>>

NextWin ==
    \/ \E i \in Cells(game.n), m \in Marks : SetCell(i, m)
    \/ CallCheckWinner
    \/ CallEvaluateBoard

SpecWin == InitWin /\ [][NextWin]_vars

\* C3: check_winner(player) is true exactly when one of the 2n+2 lines (n
\* rows, n columns, two diagonals) is entirely the player's mark; so a board
\* with one mark along exactly one line gives true for it, false for the other.
C3_WinDetection ==
    /\ Cardinality(Lines(game.n)) = 2 * game.n + 2
    /\ result.op = "check_winner" =>
           \A p \in Players : result.won[p] <=> HasLine(game, p)

\* check_winner ran on a 5x5 board whose only marks are O's along the anti-diagonal.
C3_Witness ==
    /\ result.op = "check_winner"
    /\ game.n = 5
    /\ game.board = LineBoard(5, {4, 8, 12, 16, 20}, PLAYER_O)
    /\ result.won[PLAYER_O] /\ ~result.won[PLAYER_X]

\* C21: on every board of every size, evaluate_board returns a value strictly
\* between -1000 + d and 1000 - d for every depth d in 0..6, and the value of
\* the board with X and O exchanged is its negation.
C21_HeuristicBounds ==
    result.op = "evaluate_board" =>
        /\ \A d \in 0 .. MaxDepth :
               -1000 + d < result.score /\ result.score < 1000 - d
        /\ result.swapped = -result.score

\* evaluate_board ran on a 5x5 board with X on the centre cell and gave a
\* value other than 0.
C21_Witness ==
    /\ result.op = "evaluate_board"
    /\ game.n = 5
    /\ game.board[12] = PLAYER_X
    /\ result.score = -15
    /\ result.swapped = 15

(***************************************************************************)
(* The search driven directly: best_move_ai and minimax on boards drawn    *)
(* at the start.  On the smallest size these are the positions with at     *)
(* most n pieces a side, X level with O or one ahead, and at most MaxEmpty *)
(* empty cells.  On a larger size both sides hold n pieces: each holds a   *)
(* line of its own up to the line's last cell, which the opponent holds;   *)
(* sizes that leave more than 2 * MaxEmpty cells empty then are left out.  *)
(* The queues list each side's pieces in ascending order until the harness *)
(* rotates one of them.                                                    *)
(***************************************************************************)
RECURSIVE MarkedFrom(_, _, _, _)
MarkedFrom(b, n, mark, i) ==
    IF i >= n * n THEN <<>>
    ELSE IF b[i] = mark THEN <<i>> \o MarkedFrom(b, n, mark, i + 1)
    ELSE MarkedFrom(b, n, mark, i + 1)

Marked(b, n, mark) == Cardinality({i \in Cells(n) : b[i] = mark})

\* The highest cell of a line.
Last(L) == CHOOSE i \in L : \A j \in L : j <= i

\* X on line LX and O on line LO, each blocked on its last cell by the other.
Blocked(n, LX, LO) ==
    [i \in Cells(n) |->
        IF i \in (LX \ {Last(LX)}) \cup {Last(LO)} THEN PLAYER_X
        ELSE IF i \in (LO \ {Last(LO)}) \cup {Last(LX)} THEN PLAYER_O
        ELSE EMPTY]

SearchBoards(n) ==
    IF n = SmallestSize
    THEN {b \in [Cells(n) -> Marks] :
              /\ Marked(b, n, PLAYER_X) <= n
              /\ Marked(b, n, PLAYER_O) <= Marked(b, n, PLAYER_X)
              /\ Marked(b, n, PLAYER_X) <= Marked(b, n, PLAYER_O) + 1
              /\ Marked(b, n, EMPTY) <= MaxEmpty}
    ELSE IF n * n - 2 * n <= 2 * MaxEmpty
    THEN {Blocked(n, pr[1], pr[2]) :
              pr \in {q \in Lines(n) \X Lines(n) : q[1] \cap q[2] = {}}}
    ELSE {}

NoSearch ==
    [op |-> "init", difficulty |-> "", move |-> None, first |-> None,
     calls |-> 0, picks |-> {}, queues |-> {}, d |-> None, score |-> 0,
     deeper |-> 0]

InitAI ==
    /\ AppIdle
    /\ \E n \in Sizes : \E b \in SearchBoards(n) :
           game = [GameLogic(n) EXCEPT
                       !.board = b,
                       !.move_queues = [p \in Players |-> MarkedFrom(b, n, p, 0)]]
    /\ result = NoSearch
    /\ steps = 0

SearchLevels == {"MEDIUM", "HARD"}

\* The positions a random source could hand to best_move_ai.
Draws(g) == 1 .. Max2(1, Min2(Len(get_valid_moves(g)), MaxPicks))

\* What the harness notes of a call of best_move_ai on g.
Called(g, difficulty, pick) ==
    LET move == best_move_ai(g, difficulty, pick)
    IN  [result EXCEPT !.op = "best_move_ai",
                       !.difficulty = difficulty,
                       !.move = move,
                       !.first = IF result.calls = 0 THEN move ELSE @,
                       !.calls = @ + 1,
                       !.picks = @ \cup {pick},
                       !.queues = @ \cup {g.move_queues}]

\* The first call of best_move_ai on the board, with the first draw.  The
\* call leaves the object as it found it (lines 88 and 90).
CallBestMove(difficulty) ==
    /\ result.op = "init"
    /\ result' = Called(game, difficulty, 1)
    /\ UNCHANGED <<game, steps, appVars>>

\* The second call, on the same cells and with the same difficulty, after
\* the harness has changed the order of a player's queue and the draw.
CallAgain(player, pick) ==
    /\ result.op = "best_move_ai"
    /\ result.calls = 1
    /\ pick \notin result.picks
    /\ Len(game.move_queues[player]) >= 2
    /\ LET g == [game EXCEPT !.move_queues[player] = Append(Tail(@), Head(@))]
       IN  /\ game' = g
           /\ result' = Called(g, result.difficulty, pick)
    /\ UNCHANGED <<steps, appVars>>

\* minimax called on a decided position at depth d and at depth d + 1, as the
\* search does when it meets the position one ply later.
CallMinimax(d) ==
    /\ result.op = "init"
    /\ check_winner(game, PLAYER_O) \/ check_winner(game, PLAYER_X)
    /\ LET max_d == depth_limit(game, "HARD")
       IN  result' = [result EXCEPT
                          !.op = "minimax",
                          !.d = d,
                          !.score = minimax(game, d, d % 2 = 1, -Inf, Inf, max_d),
                          !.deeper = minimax(game, d + 1, d % 2 = 0, -Inf, Inf, max_d)]
    /\ UNCHANGED <<game, steps, appVars>>

NextAI ==
    \/ \E difficulty \in SearchLevels : CallBestMove(difficulty)
    \/ \E player \in Players, pick \in Draws(game) : CallAgain(player, pick)
    \/ \E d \in 0 .. MaxDepth : CallMinimax(d)

SpecAI == InitAI /\ [][NextAI]_vars

\* C18: at MEDIUM and HARD a second call of best_move_ai on the same board
\* cells, n and difficulty returns the move of the first call, although the
\* move queues and the draw of the random source differ between the calls.
C18_SearchDeterminism ==
    (/\ result.op = "best_move_ai"
     /\ result.calls = 2
     /\ result.difficulty \in {"MEDIUM", "HARD"})
        => result.move = result.first

\* Two calls at HARD, with two draws and two queue orders, that
\* returned a move.
C18_Witness ==
    /\ result.op = "best_move_ai"
    /\ result.calls = 2
    /\ result.difficulty = "HARD"
    /\ Cardinality(result.picks) = 2
    /\ Cardinality(result.queues) = 2
    /\ result.move # None
    /\ Len(get_valid_moves(game)) >= 2

\* The search of best_move_ai and minimax without the two `break` statements
\* (lines 111 and 121): every move of every node is tried, in the same order,
\* to the same depth, with the same scores and the same strict comparison at
\* the root.
RECURSIVE minimax_plain(_, _, _, _)
RECURSIVE PlainMax(_, _, _, _, _, _)
RECURSIVE PlainMin(_, _, _, _, _, _)
RECURSIVE PlainRoot(_, _, _, _, _, _)

PlainMax(g, moves, k, d, max_d, max_eval) ==
    IF k > Len(moves) THEN max_eval
    ELSE PlainMax(g, moves, k + 1, d, max_d,
                  Max2(max_eval,
                       minimax_plain(Place(g, moves[k], PLAYER_O), d + 1, FALSE, max_d)))

PlainMin(g, moves, k, d, max_d, min_eval) ==
    IF k > Len(moves) THEN min_eval
    ELSE PlainMin(g, moves, k + 1, d, max_d,
                  Min2(min_eval,
                       minimax_plain(Place(g, moves[k], PLAYER_X), d + 1, TRUE, max_d)))

minimax_plain(g, d, is_max, max_d) ==
    IF check_winner(g, PLAYER_O) THEN 1000 - d
    ELSE IF check_winner(g, PLAYER_X) THEN -1000 + d
    ELSE IF d >= max_d \/ get_valid_moves(g) = <<>> THEN evaluate_board(g)
    ELSE IF is_max
         THEN PlainMax(g, get_valid_moves(g), 1, d, max_d, -Inf)
         ELSE PlainMin(g, get_valid_moves(g), 1, d, max_d, Inf)

PlainRoot(g, moves, k, max_d, best_val, best_move) ==
    IF k > Len(moves) THEN best_move
    ELSE LET val == minimax_plain(Place(g, moves[k], PLAYER_O), 0, FALSE, max_d)
         IN  IF val > best_val
             THEN PlainRoot(g, moves, k + 1, max_d, val, moves[k])
             ELSE PlainRoot(g, moves, k + 1, max_d, best_val, best_move)

best_move_plain(g, difficulty) ==
    LET valid_moves == get_valid_moves(g)
    IN  IF valid_moves = <<>> THEN None
        ELSE PlainRoot(g, SortByCenter(valid_moves, g.total_cells \div 2), 1,
                       depth_limit(g, difficulty), -Inf, None)

\* C19: on every board and at either depth limit, the move a call of
\* best_move_ai returns with the alpha-beta cuts is the move of the same
\* search without them (same depth, same evaluation, same move order, same
\* tie-break).
C19_AlphaBetaEquivalence ==
    (result.op = "best_move_ai" /\ result.calls = 1) =>
        result.move = best_move_plain(game, result.difficulty)

\* X's second reply to the root move, searched inside the window its first
\* reply left, as minimax does at line 117.
SecondReply(g, difficulty) ==
    LET max_d == depth_limit(g, difficulty)
        root == SortByCenter(get_valid_moves(g), g.total_cells \div 2)
        g1 == Place(g, root[1], PLAYER_O)
        replies == get_valid_moves(g1)
        beta == minimax(Place(g1, replies[1], PLAYER_X), 1, TRUE, -Inf, Inf, max_d)
        g2 == Place(g1, replies[2], PLAYER_X)
    IN  [cut |-> minimax(g2, 1, TRUE, -Inf, beta, max_d),
         plain |-> minimax_plain(g2, 1, TRUE, max_d)]

\* best_move_ai returned a move at HARD although a cut made an inner node
\* return another value than the full search of that node.
C19_Witness ==
    /\ result.op = "best_move_ai"
    /\ result.calls = 1
    /\ result.difficulty = "HARD"
    /\ result.move # None
    /\ Len(get_valid_moves(game)) >= 3
    /\ ~check_winner(game, PLAYER_O) /\ ~check_winner(game, PLAYER_X)
    /\ SecondReply(game, "HARD").cut # SecondReply(game, "HARD").plain

\* The value the root loop of best_move_ai gets for a move (line 89).
RootValue(g, move, difficulty) ==
    minimax(Place(g, move, PLAYER_O), 0, FALSE, -Inf, Inf, depth_limit(g, difficulty))

\* The cells get_valid_moves lists.
Valid(g) == {get_valid_moves(g)[k] : k \in 1 .. Len(get_valid_moves(g))}

\* C20: a position won by O scores strictly more at depth d than at depth
\* d + 1, and a position won by X strictly less, for every d in 0..6; and the
\* move best_move_ai returns has the greatest of these values, so it takes
\* the faster of two wins: a move that completes a line at once if there is one.
C20_TerminalMonotone ==
    /\ result.op = "minimax" =>
           IF check_winner(game, PLAYER_O)
           THEN result.score > result.deeper
           ELSE result.score < result.deeper
    /\ (result.op = "best_move_ai" /\ result.calls = 1 /\ result.move # None) =>
           /\ \A m \in Valid(game) :
                  RootValue(game, result.move, result.difficulty)
                      >= RootValue(game, m, result.difficulty)
           /\ (\E m \in Valid(game) : check_winner(Place(game, m, PLAYER_O), PLAYER_O))
                  => check_winner(Place(game, result.move, PLAYER_O), PLAYER_O)

\* A position won by X alone was scored at the deepest limit and one ply below.
C20_Witness ==
    /\ result.op = "minimax"
    /\ result.d = MaxDepth
    /\ check_winner(game, PLAYER_X) /\ ~check_winner(game, PLAYER_O)
    /\ result.score = -1000 + MaxDepth
    /\ result.deeper = result.score + 1

\* minimax with a note of the deepest d at which it was entered below a
\* node: the same tests, loops, window and cuts as minimax.
RECURSIVE Probe(_, _, _, _, _, _)
RECURSIVE ProbeMax(_, _, _, _, _, _, _, _, _)
RECURSIVE ProbeMin(_, _, _, _, _, _, _, _, _)
RECURSIVE ProbeRoot(_, _, _, _, _)

ProbeMax(g, moves, k, d, alpha, beta, max_d, max_eval, deep) ==
    IF k > Len(moves) THEN [eval |-> max_eval, deep |-> deep]
    ELSE LET r == Probe(Place(g, moves[k], PLAYER_O), d + 1, FALSE,
                        alpha, beta, max_d)
             me == Max2(max_eval, r.eval)
             al == Max2(alpha, r.eval)
             dp == Max2(deep, r.deep)
         IN  IF beta <= al THEN [eval |-> me, deep |-> dp]
             ELSE ProbeMax(g, moves, k + 1, d, al, beta, max_d, me, dp)

ProbeMin(g, moves, k, d, alpha, beta, max_d, min_eval, deep) ==
    IF k > Len(moves) THEN [eval |-> min_eval, deep |-> deep]
    ELSE LET r == Probe(Place(g, moves[k], PLAYER_X), d + 1, TRUE,
                        alpha, beta, max_d)
             me == Min2(min_eval, r.eval)
             be == Min2(beta, r.eval)
             dp == Max2(deep, r.deep)
         IN  IF be <= alpha THEN [eval |-> me, deep |-> dp]
             ELSE ProbeMin(g, moves, k + 1, d, alpha, be, max_d, me, dp)

Probe(g, d, is_max, alpha, beta, max_d) ==
    IF check_winner(g, PLAYER_O) THEN [eval |-> 1000 - d, deep |-> d]
    ELSE IF check_winner(g, PLAYER_X) THEN [eval |-> -1000 + d, deep |-> d]
    ELSE IF d >= max_d \/ get_valid_moves(g) = <<>>
         THEN [eval |-> evaluate_board(g), deep |-> d]
    ELSE IF is_max
         THEN ProbeMax(g, get_valid_moves(g), 1, d, alpha, beta, max_d, -Inf, d)
         ELSE ProbeMin(g, get_valid_moves(g), 1, d, alpha, beta, max_d, Inf, d)

\* The root loop: a position entered at depth d carries d + 1 trial marks,
\* the root move included.
ProbeRoot(g, moves, k, max_d, plies) ==
    IF k > Len(moves) THEN plies
    ELSE ProbeRoot(g, moves, k + 1, max_d,
                   Max2(plies,
                        1 + Probe(Place(g, moves[k], PLAYER_O), 0, FALSE,
                                  -Inf, Inf, max_d).deep))

\* The greatest number of plies beyond g of a position best_move_ai examines.
Plies(g, difficulty) ==
    ProbeRoot(g, SortByCenter(get_valid_moves(g), g.total_cells \div 2), 1,
              depth_limit(g, difficulty), 0)

\* The limits of the specification: 2 at MEDIUM; at HARD 6, 4 and 3.
PlyLimit(n, difficulty) ==
    IF difficulty = "MEDIUM" THEN 2
    ELSE IF n = 3 THEN 6 ELSE IF n = 4 THEN 4 ELSE 3

\* C22: no position best_move_ai examines lies more plies beyond the current
\* position, the root move counted, than 2 at MEDIUM and 6, 4, 3 (for n = 3,
\* 4, 5) at HARD.
C22_DepthLimit ==
    (result.op = "best_move_ai" /\ result.calls = 1) =>
        Plies(game, result.difficulty) <= PlyLimit(game.n, result.difficulty)

\* The root iteration order of best_move_ai (lines 84-85).
RootOrder(g) == SortByCenter(get_valid_moves(g), g.total_cells \div 2)

Reverse(seq) == [k \in 1 .. Len(seq) |-> seq[Len(seq) + 1 - k]]

\* The move the root loop returns when it iterates in another order.
ChoiceIn(g, difficulty, order) ==
    RootLoop(g, order, 1, depth_limit(g, difficulty), -Inf, None)

InitPlay ==
    /\ AppIdle
    /\ \E n \in Sizes : game = GameLogic(n)
    /\ \E first \in Players :
           result = [NoCall EXCEPT !.op = "init", !.player = Opponent(first)]
    /\ steps = 0

\* The first and the last cell get_valid_moves lists.
Ends(g) ==
    IF get_valid_moves(g) = <<>> THEN {}
    ELSE {get_valid_moves(g)[1], get_valid_moves(g)[Len(get_valid_moves(g))]}

PlayMove(pos) ==
    /\ steps < MaxPlies
    /\ ~Decided(game)
    /\ game.board[pos] = EMPTY
    /\ LET player == Opponent(result.player)
           r == make_move(game, pos, player)
       IN  /\ game' = r.game
           /\ result' = [NoCall EXCEPT !.op = "play", !.pos = pos,
                                       !.player = player, !.removed = r.removed]
    /\ steps' = steps + 1
    /\ UNCHANGED appVars

NextPlay == \E pos \in Ends(game) : PlayMove(pos)

SpecPlay == InitPlay /\ [][NextPlay]_vars

\* The difficulties at which the search is run on the positions of a match:
\* all three on the smallest board, EASY and MEDIUM on the next, EASY on the
\* largest; the search is run for O, the computer's side.
PlayLevels(n) ==
    IF n = SmallestSize THEN {"EASY", "MEDIUM", "HARD"}
    ELSE IF n = SmallestSize + 1 THEN {"EASY", "MEDIUM"}
    ELSE {"EASY"}

\* C24: in every position of legal alternating play, on every size, at least
\* n*n - 2n > 0 cells are empty, so get_valid_moves is not empty, the side to
\* move has a legal move and best_move_ai does not return None.
C24_NoDraw ==
    LET n == game.n
    IN  /\ n * n - 2 * n > 0
        /\ Len(get_valid_moves(game)) >= n * n - 2 * n
        /\ get_valid_moves(game) # <<>>
        /\ \E pos \in Cells(n) : game.board[pos] = EMPTY
        /\ result.player = PLAYER_X =>
               \A difficulty \in PlayLevels(n) :
                   best_move_ai(game, difficulty, 1) # None

\* Both sides hold n pieces after an eviction: exactly n*n - 2n cells are empty.
C24_Witness ==
    /\ result.op = "play"
    /\ result.removed # None
    /\ \A p \in Players : Len(game.move_queues[p]) = game.n
    /\ Len(get_valid_moves(game)) = game.n * game.n - 2 * game.n
    /\ ~Decided(game)

\* The position the root loop of best_move_ai hands to minimax for a move
\* (line 88): the mark is written to the cell, the queues are not touched.
Trial(g, move) == Place(g, move, PLAYER_O)

\* C28: in a position of a match with O to move, a root move the search scores
\* as an immediate win for O (check_winner(O) holds right after the trial
\* placement, value 1000) also makes check_winner(O) hold when it is applied
\* with make_move, eviction of O's oldest piece included; and the position the
\* search evaluates for a root move has at most n marks of each player.
C28_SearchAgreesWithRules ==
    (result.player = PLAYER_X /\ ~Decided(game)) =>
        \A move \in Valid(game) :
            /\ (/\ check_winner(Trial(game, move), PLAYER_O)
                /\ RootValue(game, move, "MEDIUM") = 1000)
                   => check_winner(make_move(game, move, PLAYER_O).game, PLAYER_O)
            /\ \A p \in Players :
                   Marked(Trial(game, move).board, game.n, p) <= game.n

\* The search as it runs on the object: every `self.board[move] = ...` of
\* best_move_ai and minimax is a write to the one board, which is handed on
\* to the next statement.  A call returns its value, the object as it leaves
\* it (g), and whether every nested call left the object as it found it (ok).
\* A plausible slip: the cell is not set back after the nested call.
Unplace_skip(g, move) == g

\* self.board[move] = EMPTY (lines 90, 108, 118).
Unplace(g, move) == [g EXCEPT !.board[move] = EMPTY]

RECURSIVE Walk(_, _, _, _, _, _)
RECURSIVE WalkMax(_, _, _, _, _, _, _, _, _)
RECURSIVE WalkMin(_, _, _, _, _, _, _, _, _)
RECURSIVE WalkRoot(_, _, _, _, _, _, _)

WalkMax(g, moves, k, d, alpha, beta, max_d, max_eval, ok) ==
    IF k > Len(moves) THEN [eval |-> max_eval, g |-> g, ok |-> ok]
    ELSE LET r == Walk(Place(g, moves[k], PLAYER_O), d + 1, FALSE,
                       alpha, beta, max_d)
             g2 == Unplace(r.g, moves[k])
             me == Max2(max_eval, r.eval)
             al == Max2(alpha, r.eval)
         IN  IF beta <= al THEN [eval |-> me, g |-> g2, ok |-> ok /\ r.ok]
             ELSE WalkMax(g2, moves, k + 1, d, al, beta, max_d, me, ok /\ r.ok)

WalkMin(g, moves, k, d, alpha, beta, max_d, min_eval, ok) ==
    IF k > Len(moves) THEN [eval |-> min_eval, g |-> g, ok |-> ok]
    ELSE LET r == Walk(Place(g, moves[k], PLAYER_X), d + 1, TRUE,
                       alpha, beta, max_d)
             g2 == Unplace(r.g, moves[k])
             me == Min2(min_eval, r.eval)
             be == Min2(beta, r.eval)
         IN  IF be <= alpha THEN [eval |-> me, g |-> g2, ok |-> ok /\ r.ok]
             ELSE WalkMin(g2, moves, k + 1, d, alpha, be, max_d, me, ok /\ r.ok)

Walk(g, d, is_max, alpha, beta, max_d) ==
    IF check_winner(g, PLAYER_O) THEN [eval |-> 1000 - d, g |-> g, ok |-> TRUE]
    ELSE IF check_winner(g, PLAYER_X) THEN [eval |-> -1000 + d, g |-> g, ok |-> TRUE]
    ELSE IF d >= max_d \/ get_valid_moves(g) = <<>>
         THEN [eval |-> evaluate_board(g), g |-> g, ok |-> TRUE]
    ELSE LET r == IF is_max
                  THEN WalkMax(g, get_valid_moves(g), 1, d, alpha, beta, max_d,
                               -Inf, TRUE)
                  ELSE WalkMin(g, get_valid_moves(g), 1, d, alpha, beta, max_d,
                               Inf, TRUE)
         IN  [r EXCEPT !.ok = r.ok /\ r.g = g]

WalkRoot(g, moves, k, max_d, best_val, best_move, ok) ==
    IF k > Len(moves) THEN [move |-> best_move, g |-> g, ok |-> ok]
    ELSE LET r == Walk(Place(g, moves[k], PLAYER_O), 0, FALSE, -Inf, Inf, max_d)
             g2 == Unplace(r.g, moves[k])
         IN  IF r.eval > best_val
             THEN WalkRoot(g2, moves, k + 1, max_d, r.eval, moves[k], ok /\ r.ok)
             ELSE WalkRoot(g2, moves, k + 1, max_d, best_val, best_move, ok /\ r.ok)

\* best_move_ai at MEDIUM / HARD, run on the object g.
best_move_walk(g, difficulty) ==
    IF get_valid_moves(g) = <<>> THEN [move |-> None, g |-> g, ok |-> TRUE]
    ELSE WalkRoot(g, RootOrder(g), 1, depth_limit(g, difficulty), -Inf, None, TRUE)

\* C25: when best_move_ai returns, at either difficulty and on every board,
\* the board is cell for cell what it was at the call and both queues are as
\* they were, order included; and every nested minimax call, cut short or
\* not, has left the board as it found it.
C25_TrialMovesUndone ==
    (result.op = "best_move_ai" /\ result.calls = 1) =>
        LET w == best_move_walk(game, result.difficulty)
        IN  /\ w.move = result.move
            /\ w.g.board = game.board
            /\ w.g.move_queues = game.move_queues
            /\ w.ok

\* The search ran on an undecided board with pieces of both sides in the
\* queues, met a cut and a position won at once, and returned a move.
C25_Witness ==
    /\ result.op = "best_move_ai" /\ result.calls = 1
    /\ result.difficulty = "HARD"
    /\ ~Decided(game)
    /\ \A p \in Players : Len(game.move_queues[p]) >= 2
    /\ \E m \in Valid(game) : Decided(Place(game, m, PLAYER_O))
    /\ SecondReply(game, "HARD").cut # SecondReply(game, "HARD").plain
    /\ best_move_walk(game, "HARD").move = result.move
    /\ result.move # None

====
